---- MODULE Spec2Model ----
(***************************************************************************)
(* The partition copy engine of pg_shardman (src/src/copypart.c): task     *)
(* construction against the partitions catalog, the copy state machine,   *)
(* the move / create-replica reconfiguration and the exec_tasks scheduler. *)
(*                                                                         *)
(* One dispatch of a task (exec_task) is a sequential C function that      *)
(* makes remote round trips. It is written here as operators that thread   *)
(* a record m through the calls the C code makes:                          *)
(*   m.cps       the task struct (CopyPartState / MovePartState / ...)     *)
(*   m.log       the remote calls issued so far in this dispatch, each     *)
(*               a record of session, call, script, statement and answer   *)
(*   m.rc        the C return value of the function just modelled          *)
(*   m.cat       the shardman.partitions table on the shardlord            *)
(*   m.lord_lsn  the shardlord's WAL write position                        *)
(*   m.now       CLOCK_MONOTONIC                                           *)
(*   m.recv      received_lsn of the task's copy subscription on dst       *)
(*   m.o         what the remote side answers in this dispatch             *)
(***************************************************************************)
EXTENDS Integers, Sequences, FiniteSets, TLC

\* ------------------------------------------------------------------ bounds
\* a batch handed to exec_tasks holds 1..MaxTasks tasks
MaxTasks == 2
\* CLOCK_MONOTONIC runs from 1 to MaxTime
MaxTime == 3
\* WAL positions of the copy channel are LsnAt(0) .. LsnAt(MaxLsn)
MaxLsn == 2
\* the number of values of one word of a WAL position (2^32 in the program)
LsnRadix == 16

\* GUCs shardman.cmd_retry_naptime and shardman.poll_interval (both 10000 ms
\* by default), in ticks of the model's clock
shardman_cmd_retry_naptime == 1
shardman_poll_interval == 2

\* ------------------------------------------------------- program constants
\* "no such node": the value the catalog lookups return when nothing is found
SHMN_INVALID_NODE_ID == -1

TASK_IN_PROGRESS == "TASK_IN_PROGRESS"
TASK_FAILED == "TASK_FAILED"
TASK_SUCCESS == "TASK_SUCCESS"

TASK_EPOLL == "TASK_EPOLL"
TASK_WAKEMEUP == "TASK_WAKEMEUP"
TASK_DONE == "TASK_DONE"

COPYPART_START_TABLESYNC == "COPYPART_START_TABLESYNC"
COPYPART_START_FINALSYNC == "COPYPART_START_FINALSYNC"
COPYPART_FINALIZE == "COPYPART_FINALIZE"
COPYPART_DONE == "COPYPART_DONE"

COPYPARTTASK_MOVE_PRIMARY == "COPYPARTTASK_MOVE_PRIMARY"
COPYPARTTASK_MOVE_REPLICA == "COPYPARTTASK_MOVE_REPLICA"
COPYPARTTASK_CREATE_REPLICA == "COPYPARTTASK_CREATE_REPLICA"

\* a field the code has not assigned (the structs are zero-allocated)
UNSET == "unset"
\* PGconn *conn: NULL, or an open connection
NULLCONN == "NULL"
OPENCONN == "open"

\* the worker node ids of the cluster
Nodes == {1, 2, 3, 4}

\* ------------------------------------------------------------ the catalog
\* shardman.partitions(part_name, owner, prv, nxt, relation); a nullable
\* column holds {} for SQL NULL and {n} for the node id n.
SQLNULL == {}

Row(part, owner, prv, nxt, rel) ==
    [part_name |-> part, owner |-> owner, prv |-> prv, nxt |-> nxt, relation |-> rel]

\* the rows of one replica chain: chain[1] is the primary, the last the tail
ChainRows(part, chain, rel) ==
    { Row(part, chain[i],
          IF i = 1 THEN SQLNULL ELSE {chain[i - 1]},
          IF i = Len(chain) THEN SQLNULL ELSE {chain[i + 1]},
          rel) : i \in 1..Len(chain) }

\* "select owner from shardman.partitions where part_name = .. and prv IS NULL"
get_primary_owner(cat, part_name) ==
    LET rows == { r \in cat : r.part_name = part_name /\ r.prv = SQLNULL }
    IN  IF rows = {} THEN SHMN_INVALID_NODE_ID
        ELSE (CHOOSE r \in rows : TRUE).owner

\* "select owner from shardman.partitions where part_name = .. and nxt is NULL"
get_reptail_owner(cat, part_name) ==
    LET rows == { r \in cat : r.part_name = part_name /\ r.nxt = SQLNULL }
    IN  IF rows = {} THEN SHMN_INVALID_NODE_ID
        ELSE (CHOOSE r \in rows : TRUE).owner

\* "select nxt from shardman.partitions where part_name = .. and owner = .."
get_next_node(cat, part_name, node_id) ==
    LET rows == { r \in cat : r.part_name = part_name /\ r.owner = node_id }
    IN  IF rows = {} THEN SHMN_INVALID_NODE_ID
        ELSE LET r == CHOOSE r \in rows : TRUE
             IN  IF r.nxt = SQLNULL THEN SHMN_INVALID_NODE_ID
                 ELSE CHOOSE n \in r.nxt : TRUE

\* "select prv from shardman.partitions where part_name = .. and owner = ..";
\* the result is <<prev, part_exists>>
get_prev_node(cat, part_name, node_id) ==
    LET rows == { r \in cat : r.part_name = part_name /\ r.owner = node_id }
    IN  IF rows = {} THEN <<SHMN_INVALID_NODE_ID, FALSE>>
        ELSE LET r == CHOOSE r \in rows : TRUE
             IN  IF r.prv = SQLNULL THEN <<SHMN_INVALID_NODE_ID, TRUE>>
                 ELSE <<CHOOSE n \in r.prv : TRUE, TRUE>>

\* "select relation from shardman.partitions where part_name = .."
get_partition_relation(cat, part_name) ==
    LET rows == { r \in cat : r.part_name = part_name }
    IN  IF rows = {} THEN UNSET ELSE (CHOOSE r \in rows : TRUE).relation

\* ------------------------------------------------------ task construction
\* a zero-allocated task struct
ZeroTask ==
    [ type |-> UNSET, part_name |-> UNSET,
      src_node |-> SHMN_INVALID_NODE_ID, dst_node |-> SHMN_INVALID_NODE_ID,
      prev_node |-> SHMN_INVALID_NODE_ID, next_node |-> SHMN_INVALID_NODE_ID,
      relation |-> UNSET,
      curstep |-> UNSET, res |-> UNSET, exec_res |-> UNSET,
      waketm |-> 0, sync_point |-> 0,
      src_conn |-> NULLCONN, dst_conn |-> NULLCONN,
      prev_conn |-> NULLCONN, next_conn |-> NULLCONN ]

\* the destination is not looked up in the catalog
init_cp_state_unchecked(cps, cat, now) ==
    [cps EXCEPT !.waketm = now,
                !.relation = get_partition_relation(cat, cps.part_name),
                !.curstep = COPYPART_START_TABLESYNC,
                !.res = TASK_IN_PROGRESS]

\* init_cp_state: the destination must not hold the partition yet
init_cp_state(cps, cat, now) ==
    LET shard_exists ==
            Cardinality({ r \in cat : r.part_name = cps.part_name
                                      /\ r.owner = cps.dst_node })
    IN  IF shard_exists # 0
        THEN [cps EXCEPT !.res = TASK_FAILED]
        ELSE [cps EXCEPT !.waketm = now,
                         !.relation = get_partition_relation(cat, cps.part_name),
                         !.curstep = COPYPART_START_TABLESYNC,
                         !.res = TASK_IN_PROGRESS]

\* init_mp_state(mps, part_name, src_node, dst_node)
init_mp_state(cat, now, part_name, src_node, dst_node) ==
    LET mps0 == [ZeroTask EXCEPT !.part_name = part_name]
        prim == get_primary_owner(cat, part_name)
        pv   == get_prev_node(cat, part_name, src_node)
    IN  IF src_node = SHMN_INVALID_NODE_ID /\ prim = SHMN_INVALID_NODE_ID
        THEN [mps0 EXCEPT !.src_node = prim, !.res = TASK_FAILED]
        ELSE IF src_node # SHMN_INVALID_NODE_ID /\ ~pv[2]
        THEN [mps0 EXCEPT !.prev_node = pv[1], !.res = TASK_FAILED]
        ELSE
        LET mps1 ==
              IF src_node = SHMN_INVALID_NODE_ID
              THEN [mps0 EXCEPT !.src_node = prim,
                                !.type = COPYPARTTASK_MOVE_PRIMARY,
                                !.prev_node = SHMN_INVALID_NODE_ID]
              ELSE [mps0 EXCEPT !.prev_node = pv[1],
                                !.src_node = src_node,
                                !.type = IF pv[1] = SHMN_INVALID_NODE_ID
                                         THEN COPYPARTTASK_MOVE_PRIMARY
                                         ELSE COPYPARTTASK_MOVE_REPLICA]
            mps2 == init_cp_state([mps1 EXCEPT !.dst_node = dst_node], cat, now)
        IN  IF mps2.res = TASK_FAILED THEN mps2
            ELSE [mps2 EXCEPT !.next_node =
                                  get_next_node(cat, mps2.part_name, mps2.src_node)]

\* init_cr_state(crs, part_name, dst_node)
init_cr_state(cat, now, part_name, dst_node) ==
    LET crs0 == [ZeroTask EXCEPT !.dst_node = dst_node,
                                 !.part_name = part_name,
                                 !.src_node = get_reptail_owner(cat, part_name)]
    IN  IF crs0.src_node = SHMN_INVALID_NODE_ID
        THEN [crs0 EXCEPT !.res = TASK_FAILED]
        ELSE LET crs1 == init_cp_state(crs0, cat, now)
             IN  IF crs1.res = TASK_FAILED THEN crs1
                 ELSE [crs1 EXCEPT !.type = COPYPARTTASK_CREATE_REPLICA]

\* ------------------------------------------------------------ the scripts
\* Every script is the sequence of its ';'-terminated statements.
\* A text is the sequence of its characters.
\* psprintf's %d: the decimal digits of n, most significant first, after a
\* minus sign if n is negative
Digit(d) == << "0", "1", "2", "3", "4", "5", "6", "7", "8", "9" >>[d + 1]

RECURSIVE Digits(_)
Digits(n) == IF n < 10 THEN << Digit(n) >> ELSE Digits(n \div 10) \o << Digit(n % 10) >>

psprintf_d(n) == IF n < 0 THEN << "-" >> \o Digits(0 - n) ELSE Digits(n)

\* psprintf("shardman_copy_%s%d_%d", ...): no separator after the name
psprintf_logname_nosep(part_name, src_node, dst_node) ==
    << "s", "h", "a", "r", "d", "m", "a", "n", "_", "c", "o", "p", "y", "_" >>
        \o part_name \o psprintf_d(src_node) \o << "_" >> \o psprintf_d(dst_node)

\* psprintf("shardman_copy_%s_%d_%d", part_name, src_node, dst_node), part_name
\* given as its characters
psprintf_logname(part_name, src_node, dst_node) ==
    << "s", "h", "a", "r", "d", "m", "a", "n", "_", "c", "o", "p", "y", "_" >>
        \o part_name \o << "_" >> \o psprintf_d(src_node) \o << "_" >>
        \o psprintf_d(dst_node)

\* cps->logname; the partitions of the engine's catalogs have names of one
\* character
logname(cps) == psprintf_logname(<< cps.part_name >>, cps.src_node, cps.dst_node)

\* psprintf("shardman_data_%s_%d_%d", part_name, pub_node, sub_node), part_name
\* given as its characters
get_data_lname(part_name, pub_node, sub_node) ==
    << "s", "h", "a", "r", "d", "m", "a", "n", "_", "d", "a", "t", "a", "_" >>
        \o part_name \o << "_" >> \o psprintf_d(pub_node) \o << "_" >>
        \o psprintf_d(sub_node)

\* prev_dst_lname of init_mp_state: the name in prev_sql's slot and in
\* sync_standby_prev_sql; my_id is shardman_my_id
prev_dst_lname(mps, my_id) == get_data_lname(<< mps.part_name >>, my_id, mps.dst_node)

\* dst_next_lname of init_mp_state: the name in dst_sql's slot and in
\* sync_standby_dst_sql
dst_next_lname(mps) == get_data_lname(<< mps.part_name >>, mps.dst_node, mps.next_node)

dst_drop_sub_sql(cps) == << "drop subscription if exists" >>

src_create_pub_and_rs_sql(cps) ==
    << "drop publication if exists", "create publication",
       "select shardman.drop_repslot",
       "select pg_create_logical_replication_slot" >>

\* the script without its leading drop of the table
dst_create_tab_and_sub_sql_nodrop(cps) ==
    << "create table like", "drop subscription if exists", "create subscription" >>

dst_create_tab_and_sub_sql(cps) ==
    << "drop table if exists", "create table like",
       "drop subscription if exists", "create subscription" >>

prev_sql(mps) ==
    << "select shardman.part_moved_prev",
       "select pg_create_logical_replication_slot" >>

sync_standby_prev_sql(mps) == << "select shardman.ensure_sync_standby" >>

dst_sql(mps) ==
    IF mps.next_node # SHMN_INVALID_NODE_ID
    THEN << "select shardman.part_moved_dst",
            "select pg_create_logical_replication_slot" >>
    ELSE << "select shardman.part_moved_dst" >>

next_sql(mps) == << "select shardman.part_moved_next" >>

sync_standby_dst_sql(mps) == << "select shardman.ensure_sync_standby" >>

drop_cp_sub_sql(crs) == << "select shardman.replica_created_drop_cp_sub" >>

create_data_pub_sql(crs) ==
    << "select shardman.replica_created_create_data_pub",
       "select pg_create_logical_replication_slot" >>

create_data_sub_sql(crs) == << "select shardman.replica_created_create_data_sub" >>

sync_standby_sql(crs) ==
    << "select shardman.ensure_sync_standby",
       "select shardman.readonly_table_off" >>

\* ----------------------------------------------------------- WAL positions
\* XLogRecPtr is a uint64 that the workers print as hi/lo, 32 bits each:
\* value = hi * 2^32 + lo. The model keeps the two-word form with a smaller
\* word, LsnRadix values per word.

\* the i-th WAL position of a copy channel; the positions cross a hi/lo carry
LsnAt(i) == (i \div 2) * LsnRadix + (i % 2)

\* the text a worker returns for a pg_lsn value
lsn_text(v) == << v \div LsnRadix, v % LsnRadix >>

\* pg_lsn_in: the text parsed back into an XLogRecPtr
pg_lsn_in_c(lsn) == lsn[1] * LsnRadix + lsn[2]

\* ------------------------------------------------- remote-call primitives
\* The C functions below return early on the first failure. Each is written
\* as a chain of operators: f(m) runs up to the first call that can fail and
\* hands the machine it yields to the operator that models the rest of f.

\* the answers a call can get besides "ok"
Adverse(call) ==
    CASE call = "connect"    -> {"fail"}
      [] call = "exec"       -> {"fail"}
      [] call = "probe_meta" -> {"fail", "rows", "null", "lag"}
      [] call = "probe_copy" -> {"fail", "rows", "null"}
      [] call = "substate"   -> {"fail", "rows", "notready"}
      [] call = "readonly"   -> {"fail"}
      [] call = "wal"        -> {"fail"}
      [] OTHER               -> {}

AnswerKinds == {"fail", "rows", "null", "lag", "notready"}

\* what the remote side answers to the next call of this dispatch
Answer(m, call) ==
    IF Len(m.log) + 1 = m.o.at /\ m.o.kind \in Adverse(call)
    THEN m.o.kind ELSE "ok"

\* PQexec / PQconnectdb: the call goes out on session conn and is answered
Issue(m, conn, call, script, stmt) ==
    [m EXCEPT !.log = Append(@, [conn |-> conn, call |-> call, script |-> script,
                                 stmt |-> stmt, ans |-> Answer(m, call),
                                 open |-> (conn = "lord" \/ m.cps[conn] = OPENCONN)])]

\* PQresultStatus / PQstatus of the call just issued
Answered(m) == m.log[Len(m.log)].ans

reset_pqconn(m, conn) == [m EXCEPT !.cps[conn] = NULLCONN]

timespec_now_plus_millis(m, millis) == m.now + millis

\* every retry is scheduled after the poll interval
configure_retry_poll(m, millis) ==
    [m EXCEPT !.cps.waketm = timespec_now_plus_millis(m, shardman_poll_interval),
              !.cps.exec_res = TASK_WAKEMEUP]

configure_retry(m, millis) ==
    [m EXCEPT !.cps.waketm = timespec_now_plus_millis(m, millis),
              !.cps.exec_res = TASK_WAKEMEUP]

\* remote_exec from statement i on: one PQexec per statement
\* the statements from the i-th on are sent whatever the answers
RECURSIVE remote_exec_rest(_, _, _, _, _)
remote_exec_rest(m, conn, script, stmts, i) ==
    IF i > Len(stmts) THEN m
    ELSE remote_exec_rest(Issue(m, conn, "exec", script, stmts[i]),
                          conn, script, stmts, i + 1)

\* the loop does not return at a statement that failed
RECURSIVE remote_exec_from_on(_, _, _, _, _)
remote_exec_from_on(m, conn, script, stmts, i) ==
    IF i > Len(stmts) THEN [m EXCEPT !.ok = TRUE]
    ELSE IF Answer(m, "exec") # "ok"
    THEN remote_exec_rest(
             [configure_retry(reset_pqconn(Issue(m, conn, "exec", script, stmts[i]), conn),
                              shardman_cmd_retry_naptime)
                EXCEPT !.ok = FALSE],
             conn, script, stmts, i + 1)
    ELSE remote_exec_from_on(Issue(m, conn, "exec", script, stmts[i]),
                             conn, script, stmts, i + 1)

RECURSIVE remote_exec_from(_, _, _, _, _)
remote_exec_from(m, conn, script, stmts, i) ==
    IF i > Len(stmts) THEN [m EXCEPT !.ok = TRUE]
    ELSE IF Answer(m, "exec") # "ok"
    THEN [configure_retry(reset_pqconn(Issue(m, conn, "exec", script, stmts[i]), conn),
                          shardman_cmd_retry_naptime)
            EXCEPT !.ok = FALSE]
    ELSE remote_exec_from(Issue(m, conn, "exec", script, stmts[i]),
                          conn, script, stmts, i + 1)

remote_exec(m, conn, script, stmts) == remote_exec_from(m, conn, script, stmts, 1)

\* PQstatus(*conn) != CONNECTION_OK for a connection kept from an earlier dispatch
ConnIsBad(m, conn) ==
    /\ m.o.bad = conn
    /\ \A i \in 1..Len(m.log) : ~(m.log[i].conn = conn /\ m.log[i].call = "connect")

\* ensure_pqconn after remote_exec(conn, cps, s)
ensure_pqconn_set(m) == [m EXCEPT !.rc = IF m.ok THEN 0 ELSE -1]

\* a failed PQconnectdb fails the task
ensure_pqconn_connected_fatal(m, conn) ==
    IF Answered(m) # "ok"
    THEN [configure_retry(reset_pqconn(m, conn), shardman_cmd_retry_naptime)
            EXCEPT !.rc = -1, !.cps.res = TASK_FAILED]
    ELSE ensure_pqconn_set(
             remote_exec([m EXCEPT !.cps[conn] = OPENCONN], conn,
                         "s", << "set session synchronous_commit to local" >>))

\* the new session is used as it is, without the setting
ensure_pqconn_connected_unset(m, conn) ==
    IF Answered(m) # "ok"
    THEN [configure_retry(reset_pqconn(m, conn), shardman_cmd_retry_naptime)
            EXCEPT !.rc = -1]
    ELSE [m EXCEPT !.cps[conn] = OPENCONN, !.rc = 0]

\* ensure_pqconn after PQconnectdb
ensure_pqconn_connected(m, conn) ==
    IF Answered(m) # "ok"
    THEN [configure_retry(reset_pqconn(m, conn), shardman_cmd_retry_naptime)
            EXCEPT !.rc = -1]
    ELSE ensure_pqconn_set(
             remote_exec([m EXCEPT !.cps[conn] = OPENCONN], conn,
                         "s", << "set session synchronous_commit to local" >>))

\* ensure_pqconn from "if (*conn == NULL)" on
ensure_pqconn_null(m, conn) ==
    IF m.cps[conn] = NULLCONN
    THEN ensure_pqconn_connected(Issue(m, conn, "connect", "PQconnectdb", "connect"), conn)
    ELSE [m EXCEPT !.rc = 0]

ensure_pqconn(m, conn) ==
    ensure_pqconn_null(IF m.cps[conn] # NULLCONN /\ ConnIsBad(m, conn)
                       THEN reset_pqconn(m, conn) ELSE m,
                       conn)

\* ensure_pqconn_cp from "if (nodes & ENSURE_PQCONN_DST)" on
ensure_pqconn_cp_dst(m, nodes) ==
    IF m.rc = -1 THEN m
    ELSE IF "dst_conn" \in nodes THEN ensure_pqconn(m, "dst_conn")
    ELSE [m EXCEPT !.rc = 0]

\* nodes is a subset of {"src_conn", "dst_conn"}: the ENSURE_PQCONN_* bitmask
ensure_pqconn_cp(m, nodes) ==
    ensure_pqconn_cp_dst(IF "src_conn" \in nodes THEN ensure_pqconn(m, "src_conn")
                         ELSE [m EXCEPT !.rc = 0],
                         nodes)

\* the statement check_sub_sync sends is a probe of the meta subscription or
\* of the task's copy subscription
ProbeCall(subname) ==
    IF subname = "shardman_meta_sub" THEN "probe_meta" ELSE "probe_copy"

\* PQgetvalue(res, 0, 0): the received_lsn the worker reports, as text
received_lsn_str(m, subname, ref_lsn) ==
    lsn_text(IF ProbeCall(subname) = "probe_copy" THEN LsnAt(m.recv)
             ELSE IF Answered(m) = "lag" /\ ref_lsn > 0 THEN ref_lsn - 1
             ELSE m.lord_lsn)

\* the connection is reset on every answer that is not a received_lsn
check_sub_sync_res_reset(m, subname, conn, ref_lsn) ==
    IF Answered(m) \in {"fail", "rows", "null"}
    THEN [reset_pqconn(m, conn) EXCEPT !.rc = -1]
    ELSE IF pg_lsn_in_c(received_lsn_str(m, subname, ref_lsn)) < ref_lsn
    THEN [m EXCEPT !.rc = -1]
    ELSE [m EXCEPT !.rc = 0,
                   !.probed = IF ProbeCall(subname) = "probe_copy"
                              THEN pg_lsn_in_c(received_lsn_str(m, subname, ref_lsn))
                              ELSE @]

\* check_sub_sync after PQexec; probed keeps the received_lsn of the copy
\* subscription that passed the comparison
check_sub_sync_res(m, subname, conn, ref_lsn) ==
    IF Answered(m) = "fail" THEN [reset_pqconn(m, conn) EXCEPT !.rc = -1]
    ELSE IF Answered(m) = "rows" THEN [m EXCEPT !.rc = -1]
    ELSE IF Answered(m) = "null" THEN [m EXCEPT !.rc = -1]
    ELSE IF pg_lsn_in_c(received_lsn_str(m, subname, ref_lsn)) < ref_lsn
    THEN [m EXCEPT !.rc = -1]
    ELSE [m EXCEPT !.rc = 0,
                   !.probed = IF ProbeCall(subname) = "probe_copy"
                              THEN pg_lsn_in_c(received_lsn_str(m, subname, ref_lsn))
                              ELSE @]

\* check_sub_sync(subname, conn, ref_lsn, log_pref)
check_sub_sync(m, subname, conn, ref_lsn) ==
    check_sub_sync_res(Issue(m, conn, ProbeCall(subname), "received_lsn_sql", subname),
                       subname, conn, ref_lsn)

\* ------------------------------------------------- the copy state machine
\* cp_start_tablesync, Step A, last part first.
\* after remote_exec(dst_create_tab_and_sub_sql)
cp_start_tablesync_end(m) ==
    IF ~m.ok THEN [m EXCEPT !.rc = -1]
    ELSE [m EXCEPT !.cps.curstep = COPYPART_START_FINALSYNC, !.rc = 0]

\* after remote_exec(src_create_pub_and_rs_sql)
cp_start_tablesync_dst(m) ==
    IF ~m.ok THEN [m EXCEPT !.rc = -1]
    ELSE cp_start_tablesync_end(
             remote_exec(m, "dst_conn", "dst_create_tab_and_sub_sql",
                         dst_create_tab_and_sub_sql(m.cps)))

\* after remote_exec(dst_drop_sub_sql)
cp_start_tablesync_src(m) ==
    IF ~m.ok THEN [m EXCEPT !.rc = -1]
    ELSE cp_start_tablesync_dst(
             remote_exec(m, "src_conn", "src_create_pub_and_rs_sql",
                         src_create_pub_and_rs_sql(m.cps)))

\* the source's script is run first, the drop on the destination after it
cp_start_tablesync_drop_late(m) ==
    IF ~m.ok THEN [m EXCEPT !.rc = -1]
    ELSE cp_start_tablesync_dst(
             remote_exec(m, "dst_conn", "dst_drop_sub_sql", dst_drop_sub_sql(m.cps)))

cp_start_tablesync_drop_src_first(m) ==
    IF m.rc = -1
    THEN [configure_retry(m, shardman_cmd_retry_naptime) EXCEPT !.rc = -1]
    ELSE cp_start_tablesync_drop_late(
             remote_exec(m, "src_conn", "src_create_pub_and_rs_sql",
                         src_create_pub_and_rs_sql(m.cps)))

\* the scripts are sent whatever the probe of the destination found
cp_start_tablesync_drop_blind(m) ==
    cp_start_tablesync_src(
        remote_exec(m, "dst_conn", "dst_drop_sub_sql", dst_drop_sub_sql(m.cps)))

\* after check_sub_sync on dst
cp_start_tablesync_drop(m) ==
    IF m.rc = -1
    THEN [configure_retry(m, shardman_cmd_retry_naptime) EXCEPT !.rc = -1]
    ELSE cp_start_tablesync_src(
             remote_exec(m, "dst_conn", "dst_drop_sub_sql", dst_drop_sub_sql(m.cps)))

\* the destination is probed whatever the probe of the source found
cp_start_tablesync_dst_sync_blind(m, lord_lsn) ==
    cp_start_tablesync_drop(
        check_sub_sync(m, "shardman_meta_sub", "dst_conn", lord_lsn))

\* after check_sub_sync on src
cp_start_tablesync_dst_sync(m, lord_lsn) ==
    IF m.rc = -1
    THEN [configure_retry(m, shardman_cmd_retry_naptime) EXCEPT !.rc = -1]
    ELSE cp_start_tablesync_drop(
             check_sub_sync(m, "shardman_meta_sub", "dst_conn", lord_lsn))

\* after ensure_pqconn_cp
cp_start_tablesync_src_sync(m, lord_lsn) ==
    IF m.rc = -1 THEN m
    ELSE cp_start_tablesync_dst_sync(
             check_sub_sync(m, "shardman_meta_sub", "src_conn", lord_lsn), lord_lsn)

\* lord_lsn = GetXLogWriteRecPtr(), then ensure_pqconn_cp
cp_start_tablesync(m) ==
    cp_start_tablesync_src_sync(ensure_pqconn_cp(m, {"src_conn", "dst_conn"}),
                                m.lord_lsn)

\* cp_start_finalsync, Step B, last part first.
\* after PQexec("select pg_current_wal_lsn();")
cp_start_finalsync_wal(m) ==
    IF Answered(m) = "fail"
    THEN [configure_retry(reset_pqconn(m, "src_conn"), shardman_cmd_retry_naptime)
            EXCEPT !.rc = -1]
    ELSE [m EXCEPT !.cps.sync_point = pg_lsn_in_c(lsn_text(LsnAt(m.o.wal))),
                   !.cps.curstep = COPYPART_FINALIZE,
                   !.rc = 0]

\* after PQexec(readonly_sql)
cp_start_finalsync_readonly(m) ==
    IF Answered(m) = "fail"
    THEN [configure_retry(reset_pqconn(m, "src_conn"), shardman_cmd_retry_naptime)
            EXCEPT !.rc = -1]
    ELSE cp_start_finalsync_wal(
             Issue(m, "src_conn", "wal", "pg_current_wal_lsn", "select pg_current_wal_lsn"))

\* a substate query that returns no single row is polled again like a
\* subscription that is not ready
cp_start_finalsync_substate_polled(m) ==
    IF Answered(m) = "fail"
    THEN [configure_retry(reset_pqconn(m, "dst_conn"), shardman_cmd_retry_naptime)
            EXCEPT !.rc = -1]
    ELSE IF Answered(m) \in {"rows", "notready"}
    THEN [configure_retry(m, shardman_poll_interval) EXCEPT !.rc = -1]
    ELSE cp_start_finalsync_readonly(
             Issue(m, "src_conn", "readonly", "readonly_sql",
                   "select shardman.readonly_table_on"))

\* the source is made read-only whatever state the subscription is in
cp_start_finalsync_substate_eager(m) ==
    IF Answered(m) = "fail"
    THEN [configure_retry(reset_pqconn(m, "dst_conn"), shardman_cmd_retry_naptime)
            EXCEPT !.rc = -1]
    ELSE IF Answered(m) = "rows"
    THEN [configure_retry(m, shardman_cmd_retry_naptime) EXCEPT !.rc = -1]
    ELSE cp_start_finalsync_readonly(
             Issue(m, "src_conn", "readonly", "readonly_sql",
                   "select shardman.readonly_table_on"))

\* a subscription that is not ready ends the step without configure_retry
cp_start_finalsync_substate_noretry(m) ==
    IF Answered(m) = "fail"
    THEN [configure_retry(reset_pqconn(m, "dst_conn"), shardman_cmd_retry_naptime)
            EXCEPT !.rc = -1]
    ELSE IF Answered(m) = "rows"
    THEN [configure_retry(m, shardman_cmd_retry_naptime) EXCEPT !.rc = -1]
    ELSE IF Answered(m) = "notready"
    THEN [m EXCEPT !.rc = -1]
    ELSE cp_start_finalsync_readonly(
             Issue(m, "src_conn", "readonly", "readonly_sql",
                   "select shardman.readonly_table_on"))

\* after PQexec(substate_sql)
cp_start_finalsync_substate(m) ==
    IF Answered(m) = "fail"
    THEN [configure_retry(reset_pqconn(m, "dst_conn"), shardman_cmd_retry_naptime)
            EXCEPT !.rc = -1]
    ELSE IF Answered(m) = "rows"
    THEN [configure_retry(m, shardman_cmd_retry_naptime) EXCEPT !.rc = -1]
    ELSE IF Answered(m) = "notready"
    THEN [configure_retry(m, shardman_poll_interval) EXCEPT !.rc = -1]
    ELSE cp_start_finalsync_readonly(
             Issue(m, "src_conn", "readonly", "readonly_sql",
                   "select shardman.readonly_table_on"))

\* after ensure_pqconn_cp
cp_start_finalsync_conn(m) ==
    IF m.rc = -1 THEN m
    ELSE cp_start_finalsync_substate(
             Issue(m, "dst_conn", "substate", "substate_sql", "select substate"))

cp_start_finalsync(m) ==
    cp_start_finalsync_conn(ensure_pqconn_cp(m, {"src_conn", "dst_conn"}))

\* cp_finalize, Step C, last part first.
\* a failed final sync sends the task back to Step A
cp_finalize_sync_restart(m) ==
    IF m.rc = -1
    THEN [configure_retry(m, shardman_poll_interval)
            EXCEPT !.rc = -1, !.cps.curstep = COPYPART_START_TABLESYNC]
    ELSE [m EXCEPT !.cps.curstep = COPYPART_DONE, !.rc = 0]

\* the outcome of check_sub_sync is ignored
cp_finalize_sync_blind(m) == [m EXCEPT !.cps.curstep = COPYPART_DONE, !.rc = 0]

\* the poll that finds the copy in sync moves the sync point to what the
\* destination has received
cp_finalize_sync_advance(m) ==
    IF m.rc = -1
    THEN [configure_retry(m, shardman_poll_interval) EXCEPT !.rc = -1]
    ELSE [m EXCEPT !.cps.curstep = COPYPART_DONE, !.rc = 0, !.cps.sync_point = m.probed]

\* after check_sub_sync
\* a destination that has caught up is polled again all the same
cp_finalize_sync_stay(m) ==
    [configure_retry(m, shardman_poll_interval) EXCEPT !.rc = -1]

cp_finalize_sync(m) ==
    IF m.rc = -1
    THEN [configure_retry(m, shardman_poll_interval) EXCEPT !.rc = -1]
    ELSE [m EXCEPT !.cps.curstep = COPYPART_DONE, !.rc = 0]

\* after ensure_pqconn_cp
cp_finalize_conn(m) ==
    IF m.rc = -1 THEN m
    ELSE cp_finalize_sync(
             check_sub_sync(m, logname(m.cps), "dst_conn", m.cps.sync_point))

\* the destination is polled without ensure_pqconn_cp
cp_finalize_unensured(m) == cp_finalize_conn([m EXCEPT !.rc = 0])

cp_finalize(m) == cp_finalize_conn(ensure_pqconn_cp(m, {"dst_conn"}))

\* exec_cp, one iteration of the copy state machine, last part first.
\* from "if (cps->curstep == COPYPART_FINALIZE)" on
exec_cp_finalize(m) ==
    IF m.rc = -1 THEN m
    ELSE IF m.cps.curstep = COPYPART_FINALIZE THEN cp_finalize(m)
    ELSE m

\* from "if (cps->curstep == COPYPART_START_FINALSYNC)" on
exec_cp_finalsync(m) ==
    IF m.rc = -1 THEN m
    ELSE exec_cp_finalize(IF m.cps.curstep = COPYPART_START_FINALSYNC
                          THEN cp_start_finalsync(m) ELSE [m EXCEPT !.rc = 0])

\* exec_cp returns to exec_tasks once Step A is through
exec_cp_tablesync_return(m) ==
    IF m.rc = -1 THEN m ELSE [configure_retry(m, 0) EXCEPT !.rc = -1]

exec_cp_tablesync_yield(m) ==
    IF m.cps.curstep = COPYPART_START_TABLESYNC
    THEN exec_cp_tablesync_return(cp_start_tablesync(m))
    ELSE exec_cp_finalsync([m EXCEPT !.rc = 0])

\* from "if (cps->curstep == COPYPART_START_TABLESYNC)" on
exec_cp_tablesync(m) ==
    exec_cp_finalsync(IF m.cps.curstep = COPYPART_START_TABLESYNC
                      THEN cp_start_tablesync(m) ELSE [m EXCEPT !.rc = 0])

\* a task found at Done starts its copy again
exec_cp_recopy(m) ==
    exec_cp_tablesync([m EXCEPT !.cps.waketm = 0,
                                !.cps.curstep = IF @ = COPYPART_DONE
                                                THEN COPYPART_START_TABLESYNC ELSE @])

\* cps->waketm = (struct timespec) {0}
exec_cp(m) == exec_cp_tablesync([m EXCEPT !.cps.waketm = 0])

\* ------------------------------------------------------- reconfiguration
\* mp_rebuild_lr: prev, dst, next, in this order; last part first.
\* "return 0", or -1 if the last remote_exec failed
mp_rebuild_lr_end(m) == [m EXCEPT !.rc = IF m.ok THEN 0 ELSE -1]

\* the next neighbour is made a synchronous standby whatever the mode
mp_rebuild_lr_next_sync_always(m) ==
    IF ~m.ok THEN [m EXCEPT !.rc = -1]
    ELSE mp_rebuild_lr_end(
             remote_exec(m, "dst_conn", "sync_standby_dst_sql",
                         sync_standby_dst_sql(m.cps)))

\* after remote_exec(next_sql)
mp_rebuild_lr_next_sync(m) ==
    IF ~m.ok THEN [m EXCEPT !.rc = -1]
    ELSE mp_rebuild_lr_end(
             IF m.sync_replicas
             THEN remote_exec(m, "dst_conn", "sync_standby_dst_sql",
                              sync_standby_dst_sql(m.cps))
             ELSE m)

\* after ensure_pqconn(next_conn)
mp_rebuild_lr_next_exec(m) ==
    IF m.rc = -1 THEN m
    ELSE mp_rebuild_lr_next_sync(
             remote_exec(m, "next_conn", "next_sql", next_sql(m.cps)))

\* from the second "if (mps->prev_node != SHMN_INVALID_NODE_ID)" block on,
\* given the outcome of its remote_exec
mp_rebuild_lr_next(m) ==
    IF ~m.ok THEN [m EXCEPT !.rc = -1]
    ELSE IF m.cps.next_node # SHMN_INVALID_NODE_ID
    THEN mp_rebuild_lr_next_exec(ensure_pqconn(m, "next_conn"))
    ELSE [m EXCEPT !.rc = 0]

\* after remote_exec(dst_sql)
mp_rebuild_lr_prev_sync(m) ==
    IF ~m.ok THEN [m EXCEPT !.rc = -1]
    ELSE mp_rebuild_lr_next(
             IF m.cps.prev_node # SHMN_INVALID_NODE_ID /\ m.sync_replicas
             THEN remote_exec(m, "prev_conn", "sync_standby_prev_sql",
                              sync_standby_prev_sql(m.cps))
             ELSE m)

\* after ensure_pqconn_cp(ENSURE_PQCONN_DST)
mp_rebuild_lr_dst_exec(m) ==
    IF m.rc = -1 THEN m
    ELSE mp_rebuild_lr_prev_sync(
             remote_exec(m, "dst_conn", "dst_sql", dst_sql(m.cps)))

\* from ensure_pqconn_cp(ENSURE_PQCONN_DST) on, given the outcome of the
\* first "if (mps->prev_node != SHMN_INVALID_NODE_ID)" block
mp_rebuild_lr_dst(m) ==
    IF m.rc = -1 THEN m
    ELSE mp_rebuild_lr_dst_exec(ensure_pqconn_cp(m, {"dst_conn"}))

\* after remote_exec(prev_sql)
mp_rebuild_lr_prev_end(m) == [m EXCEPT !.rc = IF m.ok THEN 0 ELSE -1]

\* after ensure_pqconn(prev_conn)
mp_rebuild_lr_prev_exec(m) ==
    IF m.rc = -1 THEN m
    ELSE mp_rebuild_lr_prev_end(
             remote_exec(m, "prev_conn", "prev_sql", prev_sql(m.cps)))

\* the previous neighbour is not reconfigured first
mp_rebuild_lr_dst_first(m) == mp_rebuild_lr_dst([m EXCEPT !.rc = 0])

mp_rebuild_lr(m) ==
    mp_rebuild_lr_dst(IF m.cps.prev_node # SHMN_INVALID_NODE_ID
                      THEN mp_rebuild_lr_prev_exec(ensure_pqconn(m, "prev_conn"))
                      ELSE [m EXCEPT !.rc = 0])

\* cr_rebuild_lr, last part first.
\* "return 0", or -1 if the last remote_exec failed
cr_rebuild_lr_end(m) == [m EXCEPT !.rc = IF m.ok THEN 0 ELSE -1]

\* after remote_exec(create_data_sub_sql)
cr_rebuild_lr_sync(m) ==
    IF ~m.ok THEN [m EXCEPT !.rc = -1]
    ELSE cr_rebuild_lr_end(
             IF m.sync_replicas
             THEN remote_exec(m, "src_conn", "sync_standby_sql", sync_standby_sql(m.cps))
             ELSE m)

\* after remote_exec(create_data_pub_sql)
cr_rebuild_lr_sub(m) ==
    IF ~m.ok THEN [m EXCEPT !.rc = -1]
    ELSE cr_rebuild_lr_sync(
             remote_exec(m, "dst_conn", "create_data_sub_sql",
                         create_data_sub_sql(m.cps)))

\* the data subscription is created without the data publication
cr_rebuild_lr_pub_skipped(m) ==
    IF ~m.ok THEN [m EXCEPT !.rc = -1]
    ELSE cr_rebuild_lr_sync(
             remote_exec(m, "dst_conn", "create_data_sub_sql",
                         create_data_sub_sql(m.cps)))

\* after remote_exec(drop_cp_sub_sql)
cr_rebuild_lr_pub(m) ==
    IF ~m.ok THEN [m EXCEPT !.rc = -1]
    ELSE cr_rebuild_lr_sub(
             remote_exec(m, "src_conn", "create_data_pub_sql",
                         create_data_pub_sql(m.cps)))

\* after ensure_pqconn_cp
cr_rebuild_lr_drop(m) ==
    IF m.rc = -1 THEN m
    ELSE cr_rebuild_lr_pub(
             remote_exec(m, "dst_conn", "drop_cp_sub_sql", drop_cp_sub_sql(m.cps)))

cr_rebuild_lr(m) == cr_rebuild_lr_drop(ensure_pqconn_cp(m, {"src_conn", "dst_conn"}))

\* ------------------------------------------------------ the metadata update
\* "update shardman.partitions set <col> = dst where part_name = .. and <col> = src"
mp_update_owner(cat, cps) ==
    { IF r.part_name = cps.part_name /\ r.owner = cps.src_node
      THEN [r EXCEPT !.owner = cps.dst_node] ELSE r : r \in cat }

mp_update_nxt(cat, cps) ==
    { IF r.part_name = cps.part_name /\ r.nxt = {cps.src_node}
      THEN [r EXCEPT !.nxt = {cps.dst_node}] ELSE r : r \in cat }

mp_update_prv(cat, cps) ==
    { IF r.part_name = cps.part_name /\ r.prv = {cps.src_node}
      THEN [r EXCEPT !.prv = {cps.dst_node}] ELSE r : r \in cat }

\* the neighbours' rows are left as they were
mp_update_metadata_sql_owner_only(cat, cps) == mp_update_owner(cat, cps)

\* the row of the next replica keeps its prv
mp_update_metadata_sql_no_prv(cat, cps) ==
    mp_update_nxt(mp_update_owner(cat, cps), cps)

\* update_metadata_sql of a move task: the three updates, in order
mp_update_metadata_sql(cat, cps) ==
    mp_update_prv(mp_update_nxt(mp_update_owner(cat, cps), cps), cps)

\* "insert into shardman.partitions values (part, dst, src, NULL, relation)"
cr_insert_row(cat, cps) ==
    cat \cup { Row(cps.part_name, cps.dst_node, {cps.src_node}, SQLNULL, cps.relation) }

\* "update shardman.partitions set nxt = dst where part_name = .. and owner = src"
cr_update_nxt(cat, cps) ==
    { IF r.part_name = cps.part_name /\ r.owner = cps.src_node
      THEN [r EXCEPT !.nxt = {cps.dst_node}] ELSE r : r \in cat }

\* the old tail's row is left as it was
cr_update_metadata_sql_insert_only(cat, cps) == cr_insert_row(cat, cps)

\* update_metadata_sql of a create-replica task: the insert, then the update
cr_update_metadata_sql(cat, cps) == cr_update_nxt(cr_insert_row(cat, cps), cps)

\* void_spi(cps->update_metadata_sql) on the shardlord; the commit writes WAL
void_spi(m, newcat) ==
    [Issue(m, "lord", "spi", "update_metadata_sql", "update_metadata_sql")
        EXCEPT !.cat = newcat, !.lord_lsn = @ + 1, !.nupd = @ + 1]

\* --------------------------------------------------------- one dispatch
\* the metadata update is run although mp_rebuild_lr failed
exec_move_part_update_early(m) ==
    IF m.rc = -1
    THEN [void_spi(m, mp_update_metadata_sql(m.cat, m.cps)) EXCEPT !.rc = -1]
    ELSE [void_spi(m, mp_update_metadata_sql(m.cat, m.cps))
            EXCEPT !.cps.res = TASK_SUCCESS, !.cps.exec_res = TASK_DONE]

\* a failed mp_rebuild_lr leaves the catalog without the source's row
exec_move_part_update_undone(m) ==
    IF m.rc = -1
    THEN [m EXCEPT !.cat = { r \in @ : r.part_name # m.cps.part_name
                                          \/ r.owner # m.cps.src_node }]
    ELSE [void_spi(m, mp_update_metadata_sql(m.cat, m.cps))
            EXCEPT !.cps.res = TASK_SUCCESS, !.cps.exec_res = TASK_DONE]

\* exec_move_part from void_spi on, given the outcome of mp_rebuild_lr
exec_move_part_update(m) ==
    IF m.rc = -1 THEN m
    ELSE [void_spi(m, mp_update_metadata_sql(m.cat, m.cps))
            EXCEPT !.cps.res = TASK_SUCCESS, !.cps.exec_res = TASK_DONE]

\* mp_rebuild_lr is called whether or not the source has a neighbour
exec_move_part_rebuild_always(m) ==
    IF m.cps.curstep # COPYPART_DONE THEN m
    ELSE exec_move_part_update(mp_rebuild_lr(m))

\* exec_move_part after exec_cp
exec_move_part_rebuild(m) ==
    IF m.cps.curstep # COPYPART_DONE THEN m
    ELSE exec_move_part_update(
             IF m.cps.next_node # SHMN_INVALID_NODE_ID
                \/ m.cps.prev_node # SHMN_INVALID_NODE_ID
             THEN mp_rebuild_lr(m) ELSE [m EXCEPT !.rc = 0])

exec_move_part(m) == exec_move_part_rebuild(exec_cp(m))

\* the outcome of cr_rebuild_lr is ignored
exec_create_replica_update_blind(m) ==
    [void_spi(m, cr_update_metadata_sql(m.cat, m.cps))
        EXCEPT !.cps.res = TASK_SUCCESS, !.cps.exec_res = TASK_DONE]

\* exec_create_replica from void_spi on, given the outcome of cr_rebuild_lr
exec_create_replica_update(m) ==
    IF m.rc = -1 THEN m
    ELSE [void_spi(m, cr_update_metadata_sql(m.cat, m.cps))
            EXCEPT !.cps.res = TASK_SUCCESS, !.cps.exec_res = TASK_DONE]

\* exec_create_replica after exec_cp
exec_create_replica_rebuild(m) ==
    IF m.cps.curstep # COPYPART_DONE THEN m
    ELSE exec_create_replica_update(cr_rebuild_lr(m))

exec_create_replica(m) == exec_create_replica_rebuild(exec_cp(m))

exec_task(m) ==
    IF m.cps.type = COPYPARTTASK_CREATE_REPLICA THEN exec_create_replica(m)
    ELSE IF m.cps.type \in {COPYPARTTASK_MOVE_PRIMARY, COPYPARTTASK_MOVE_REPLICA}
    THEN exec_move_part(m)
    ELSE m

\* ------------------------------------------------------------- the state
VARIABLES
    partitions,             \* shardman.partitions on the shardlord
    lord_lsn,               \* GetXLogWriteRecPtr() on the shardlord
    shardman_sync_replicas, \* GUC shardman.sync_replicas
    got_sigterm,            \* flag set by shardlord_sigterm
    got_sigusr1,            \* flag set by shardlord_sigusr1
    now,                    \* CLOCK_MONOTONIC
    reqs,                   \* the commands the batch was built from
    cat0,                   \* the catalog the batch was built against
    tasks,                  \* CopyPartState **tasks, 1..ntasks
    pc,                     \* where exec_tasks stands
    timeout_states,         \* the slist of sleeping tasks, head first
    unfinished_tasks,       \* int unfinished_tasks
    timeout,                \* int timeout, the argument of epoll_wait (0 once used)
    iter,                   \* position of slist_foreach_modify in timeout_states
                            \* (0 outside the walk)
    epoll_set,              \* tasks registered with epoll_ctl
    recv_lsn,               \* per task: index of received_lsn of its copy subscription
    probed,                 \* per task: last received_lsn read from the copy subscription
    nupd,                   \* per task: how many times update_metadata_sql was executed
    last,                   \* the task dispatched last (0: none yet)
    sent,                   \* the calls issued by the step just taken, where traced
    channel,                \* a (part_name, src_node, dst_node) and the logname made of it
    cluster,                \* the copy channel's objects on the source and the destination
    shardman_my_id          \* GUC shardman.my_id of the node exec_tasks runs on

vars == << partitions, lord_lsn, shardman_sync_replicas, got_sigterm, got_sigusr1, now,
           reqs, cat0, tasks, pc, timeout_states, unfinished_tasks, timeout, iter,
           epoll_set, recv_lsn, probed, nupd, last, sent, channel, cluster,
           shardman_my_id >>

ntasks == Len(tasks)
TaskIds == 1..ntasks

\* ------------------------------------------------------ the initial states
\* replica chains of partition "p" (relation "r"), primary first
PChains == { <<1>>, <<1, 3>>, <<3, 1>>, <<3, 1, 4>> }
\* partition "q" (relation "s") lives on node 2 alone
QChain == <<2>>

InitCatalogs == { ChainRows("p", c, "r") \cup ChainRows("q", QChain, "s") : c \in PChains }

MoveReq(part, src, dst) == [kind |-> "move_part", part_name |-> part, src |-> src, dst |-> dst]
ReplicaReq(part, dst) ==
    [kind |-> "create_replica", part_name |-> part, src |-> SHMN_INVALID_NODE_ID, dst |-> dst]

\* the command of a batch of one
FirstReqs ==
    { MoveReq("p", src, dst) : src \in {SHMN_INVALID_NODE_ID, 1, 2}, dst \in {1, 2} }
    \cup { ReplicaReq("p", dst) : dst \in {1, 2, 3} }
    \cup { MoveReq("x", SHMN_INVALID_NODE_ID, 2), MoveReq("x", 1, 2), ReplicaReq("x", 2) }

\* a longer batch: one command on "p", which does or does not pass the checks
\* of init_cp_state, then a move of "q", then commands on the absent "x"
LeadReqs == { MoveReq("p", 1, 2), MoveReq("p", 1, 1) }
MoreReqs(i) ==
    IF i = 2 THEN { MoveReq("q", SHMN_INVALID_NODE_ID, 3) }
    ELSE { MoveReq("x", SHMN_INVALID_NODE_ID, 2) }

AllReqs == FirstReqs \cup LeadReqs \cup UNION { MoreReqs(i) : i \in 2..MaxTasks }

Batches ==
    { b \in UNION { [1..n -> AllReqs] : n \in 1..MaxTasks } :
        \/ Len(b) = 1 /\ b[1] \in FirstReqs
        \/ Len(b) > 1 /\ b[1] \in LeadReqs /\ \A i \in 2..Len(b) : b[i] \in MoreReqs(i) }

\* the catalog and the setting a longer batch runs on
LongBatchCatalog == ChainRows("p", <<1>>, "r") \cup ChainRows("q", QChain, "s")

\* the command handlers build one task per command with init_mp_state / init_cr_state
BuildTask(cat, tm, rq) ==
    IF rq.kind = "move_part"
    THEN init_mp_state(cat, tm, rq.part_name, rq.src, rq.dst)
    ELSE init_cr_state(cat, tm, rq.part_name, rq.dst)

Init ==
    /\ partitions \in InitCatalogs
    /\ cat0 = partitions
    /\ lord_lsn = 1
    /\ shardman_sync_replicas \in BOOLEAN
    /\ got_sigterm = FALSE
    /\ got_sigusr1 = FALSE
    /\ now = 1
    /\ reqs \in Batches
    /\ Len(reqs) > 1 => partitions = LongBatchCatalog /\ ~shardman_sync_replicas
    /\ tasks = [i \in 1..Len(reqs) |-> BuildTask(partitions, now, reqs[i])]
    /\ pc = "start"
    /\ timeout_states = << >>
    /\ unfinished_tasks = 0
    /\ timeout = 0
    /\ iter = 0
    /\ epoll_set = {}
    /\ recv_lsn = [i \in 1..Len(reqs) |-> 0]
    /\ probed = [i \in 1..Len(reqs) |-> -1]
    /\ nupd = [i \in 1..Len(reqs) |-> 0]
    /\ last = 0
    /\ sent = << >>
    /\ channel = UNSET
    /\ shardman_my_id = SHMN_INVALID_NODE_ID
    /\ cluster = UNSET

\* ------------------------------------------------------------ exec_tasks
signal_pending == got_sigterm \/ got_sigusr1

\* failed tasks are pushed too
RECURSIVE push_tasks_all(_, _, _)
push_tasks_all(ts, lst, i) ==
    IF i > Len(ts) THEN lst ELSE push_tasks_all(ts, <<i>> \o lst, i + 1)

\* slist_push_head of every task that is not failed, i = 1..n
RECURSIVE push_tasks(_, _, _)
push_tasks(ts, lst, i) ==
    IF i > Len(ts) THEN lst
    ELSE push_tasks(ts, IF ts[i].res # TASK_FAILED THEN <<i>> \o lst ELSE lst, i + 1)

\* exec_tasks up to its loop: fill timeout_states, count the unfinished tasks
exec_tasks_begin ==
    /\ pc = "start"
    /\ timeout_states' = push_tasks(tasks, << >>, 1)
    /\ unfinished_tasks' = Cardinality({ i \in TaskIds : tasks[i].res # TASK_FAILED })
    /\ pc' = "loop"
    /\ sent' = << >>
    /\ UNCHANGED << channel, cluster, shardman_my_id,
                    partitions, lord_lsn, shardman_sync_replicas, got_sigterm, got_sigusr1,
                    now, reqs, cat0, tasks, timeout, iter, epoll_set, recv_lsn, probed,
                    nupd, last >>

\* the Assert of calc_timeout: no task on the list has waketm {0, 0}
calc_timeout_assert(lst, ts) == \A j \in 1..Len(lst) : ts[lst[j]].waketm # 0

timespec_diff_millis(a, b) == a - b

\* the wake time of the list's head is taken for the minimum
calc_timeout_head(lst, ts, curtm) ==
    IF Len(lst) = 0 THEN -1
    ELSE IF ts[lst[1]].waketm <= curtm THEN 0
    ELSE timespec_diff_millis(ts[lst[1]].waketm, curtm)

calc_timeout(lst, ts, curtm) ==
    IF Len(lst) = 0 THEN -1
    ELSE LET waketm == CHOOSE w \in { ts[lst[j]].waketm : j \in 1..Len(lst) } :
                           \A j \in 1..Len(lst) : w <= ts[lst[j]].waketm
         IN  IF waketm <= curtm THEN 0
             ELSE IF timespec_diff_millis(waketm, curtm) > 0
                  THEN timespec_diff_millis(waketm, curtm) ELSE 0

\* while (unfinished_tasks > 0 && !signal_pending()) { timeout = calc_timeout(..)
\* the loop condition without its test of the signal flags
exec_tasks_loop_deaf ==
    /\ pc = "loop"
    /\ IF unfinished_tasks > 0
       THEN /\ timeout' = calc_timeout(timeout_states, tasks, now)
            /\ pc' = "wait"
       ELSE /\ pc' = "cleanup"
            /\ UNCHANGED timeout
    /\ sent' = << >>
    /\ UNCHANGED << channel, cluster, shardman_my_id,
                    partitions, lord_lsn, shardman_sync_replicas, got_sigterm, got_sigusr1,
                    now, reqs, cat0, tasks, timeout_states, unfinished_tasks, iter,
                    epoll_set, recv_lsn, probed, nupd, last >>

exec_tasks_loop ==
    /\ pc = "loop"
    /\ IF unfinished_tasks > 0 /\ ~signal_pending
       THEN /\ timeout' = calc_timeout(timeout_states, tasks, now)
            /\ pc' = "wait"
       ELSE /\ pc' = "cleanup"
            /\ UNCHANGED timeout
    /\ sent' = << >>
    /\ UNCHANGED << channel, cluster, shardman_my_id,
                    partitions, lord_lsn, shardman_sync_replicas, got_sigterm, got_sigusr1,
                    now, reqs, cat0, tasks, timeout_states, unfinished_tasks, iter,
                    epoll_set, recv_lsn, probed, nupd, last >>

\* epoll_wait returns 0: no fd is ready, the timeout has elapsed
epoll_wait_timeout ==
    /\ pc = "wait"
    /\ timeout >= 0
    /\ now + timeout <= MaxTime
    /\ now' = now + timeout
    /\ pc' = "walk"
    /\ iter' = 1
    /\ timeout' = 0
    /\ sent' = << >>
    /\ UNCHANGED << channel, cluster, shardman_my_id,
                    partitions, lord_lsn, shardman_sync_replicas, got_sigterm, got_sigusr1,
                    reqs, cat0, tasks, timeout_states, unfinished_tasks,
                    epoll_set, recv_lsn, probed, nupd, last >>

\* epoll_wait returns -1 with EINTR: a signal came in while waiting; sig names
\* the handler that ran ("none": a signal without a handler flag)
epoll_wait_eintr(sig, d) ==
    /\ pc = "wait"
    /\ timeout < 0 \/ d <= timeout
    /\ now + d <= MaxTime
    /\ now' = now + d
    /\ got_sigterm' = (got_sigterm \/ sig = "SIGTERM")
    /\ got_sigusr1' = (got_sigusr1 \/ sig = "SIGUSR1")
    /\ pc' = "loop"
    /\ timeout' = 0
    /\ sent' = << >>
    /\ UNCHANGED << channel, cluster, shardman_my_id,
                    partitions, lord_lsn, shardman_sync_replicas, reqs, cat0, tasks,
                    timeout_states, unfinished_tasks, iter, epoll_set, recv_lsn,
                    probed, nupd, last >>

\* the record a dispatch of task t starts from
Machine(t, o) ==
    [ cps |-> tasks[t], log |-> << >>, rc |-> 0, ok |-> TRUE,
      cat |-> partitions, lord_lsn |-> lord_lsn, now |-> now,
      recv |-> recv_lsn[t], probed |-> probed[t], nupd |-> nupd[t],
      sync_replicas |-> shardman_sync_replicas, o |-> o ]

ConnNames == {"src_conn", "dst_conn", "prev_conn", "next_conn"}

\* What the remote side may answer during one dispatch of task t: any one
\* connection kept from before may be found broken (bad), the source reports
\* any WAL position at or past what the destination has received (wal), and
\* all calls are answered "ok" except possibly the at-th, answered kind.
BadChoices(t) == {"none"} \cup { c \in ConnNames : tasks[t][c] = OPENCONN }

WalChoices(t) ==
    IF tasks[t].curstep \in {COPYPART_START_TABLESYNC, COPYPART_START_FINALSYNC}
    THEN recv_lsn[t]..MaxLsn ELSE {recv_lsn[t]}

Quiet(xb, xw) == [bad |-> xb, wal |-> xw, at |-> 0, kind |-> "ok"]

\* the calls of a dispatch that read the source's WAL position
WalAt(base) == { i \in 1..Len(base) : base[i].call = "wal" }

\* the first call whose answer is varied; same: the source reports the
\* position the destination has received
FirstVaried(base, same) ==
    IF same THEN 1
    ELSE IF WalAt(base) = {} THEN Len(base) + 1
    ELSE (CHOOSE i \in WalAt(base) : TRUE) + 1

\* The answers to enumerate for one dispatch whose calls are base when all
\* are answered "ok". A WAL position other than the one the destination has
\* received shows only once the source has reported it, so with such an xw
\* only the calls after that report are varied. With a connection found
\* broken, the adverse answer is one to its reopening.
OraclesOf(base, xb, xw, same) ==
    (IF same \/ WalAt(base) # {} THEN {Quiet(xb, xw)} ELSE {}) \cup
    { [bad |-> xb, wal |-> xw, at |-> q[1], kind |-> q[2]] :
        q \in { q \in (FirstVaried(base, same)..Len(base)) \X AnswerKinds :
                  /\ q[2] \in Adverse(base[q[1]].call)
                  /\ xb # "none" =>
                        /\ base[q[1]].conn = xb
                        /\ base[q[1]].call = "connect" \/ base[q[1]].script = "s" } }

Oracles(t, xb, xw) ==
    OraclesOf(exec_task(Machine(t, Quiet(xb, xw))).log, xb, xw, xw = recv_lsn[t])

RemoveAt(lst, i) == SubSeq(lst, 1, i - 1) \o SubSeq(lst, i + 1, Len(lst))

\* epoll_subscribe: EPOLL_CTL_ADD / EPOLL_CTL_MOD of cps->fd_to_epoll
epoll_subscribe(set, t) == set \cup {t}

\* the switch on exec_res leaves every task on the list
Dispatched_keep(t, m, record) ==
    /\ tasks' = [tasks EXCEPT ![t] = m.cps]
    /\ partitions' = m.cat
    /\ lord_lsn' = m.lord_lsn
    /\ probed' = [probed EXCEPT ![t] = m.probed]
    /\ nupd' = [nupd EXCEPT ![t] = m.nupd]
    /\ last' = t
    /\ sent' = IF record THEN m.log ELSE << >>
    /\ iter' = iter + 1
    /\ UNCHANGED << timeout_states, unfinished_tasks, epoll_set >>

\* a task that is done leaves the list but not the counter
Dispatched_uncounted(t, m, record) ==
    /\ tasks' = [tasks EXCEPT ![t] = m.cps]
    /\ partitions' = m.cat
    /\ lord_lsn' = m.lord_lsn
    /\ probed' = [probed EXCEPT ![t] = m.probed]
    /\ nupd' = [nupd EXCEPT ![t] = m.nupd]
    /\ last' = t
    /\ sent' = IF record THEN m.log ELSE << >>
    /\ IF m.cps.exec_res = TASK_WAKEMEUP
       THEN /\ iter' = iter + 1
            /\ UNCHANGED << timeout_states, unfinished_tasks, epoll_set >>
       ELSE /\ timeout_states' = RemoveAt(timeout_states, iter)
            /\ iter' = iter
            /\ unfinished_tasks' = unfinished_tasks
            /\ epoll_set' = IF m.cps.exec_res = TASK_EPOLL
                            THEN epoll_subscribe(epoll_set, t) ELSE epoll_set

\* exec_task(cps) has returned with m: the switch on exec_res
Dispatched(t, m, record) ==
    /\ tasks' = [tasks EXCEPT ![t] = m.cps]
    /\ partitions' = m.cat
    /\ lord_lsn' = m.lord_lsn
    /\ probed' = [probed EXCEPT ![t] = m.probed]
    /\ nupd' = [nupd EXCEPT ![t] = m.nupd]
    /\ last' = t
    /\ sent' = IF record THEN m.log ELSE << >>
    /\ IF m.cps.exec_res = TASK_WAKEMEUP
       THEN /\ iter' = iter + 1
            /\ UNCHANGED << timeout_states, unfinished_tasks, epoll_set >>
       ELSE /\ timeout_states' = RemoveAt(timeout_states, iter)
            /\ iter' = iter
            /\ unfinished_tasks' = IF m.cps.exec_res = TASK_DONE
                                   THEN unfinished_tasks - 1 ELSE unfinished_tasks
            /\ epoll_set' = IF m.cps.exec_res = TASK_EPOLL
                            THEN epoll_subscribe(epoll_set, t) ELSE epoll_set

\* the task under the iterator is run whether or not its waketm has come
Dispatch_early(t, record) ==
    /\ pc = "walk"
    /\ iter <= Len(timeout_states)
    /\ t = timeout_states[iter]
    /\ \E xb \in BadChoices(t), xw \in WalChoices(t) : \E o \in Oracles(t, xb, xw) :
           Dispatched(t, exec_task(Machine(t, o)), record)
    /\ UNCHANGED << channel, cluster, shardman_my_id,
                    shardman_sync_replicas, got_sigterm, got_sigusr1, now, reqs, cat0,
                    pc, timeout, recv_lsn >>

\* the body of slist_foreach_modify for a task whose waketm has come:
\* exec_task, then the switch on exec_res
Dispatch(t, record) ==
    /\ pc = "walk"
    /\ iter <= Len(timeout_states)
    /\ t = timeout_states[iter]
    /\ tasks[t].waketm <= now
    /\ \E xb \in BadChoices(t), xw \in WalChoices(t) : \E o \in Oracles(t, xb, xw) :
           Dispatched(t, exec_task(Machine(t, o)), record)
    /\ UNCHANGED << channel, cluster, shardman_my_id,
                    shardman_sync_replicas, got_sigterm, got_sigusr1, now, reqs, cat0,
                    pc, timeout, recv_lsn >>

exec_tasks_dispatch(t) == Dispatch(t, FALSE)

\* the same step, keeping the calls it issued in sent
exec_tasks_dispatch_traced(t) == Dispatch(t, TRUE)

\* the body of slist_foreach_modify for a task that still sleeps
exec_tasks_skip ==
    /\ pc = "walk"
    /\ iter <= Len(timeout_states)
    /\ tasks[timeout_states[iter]].waketm > now
    /\ iter' = iter + 1
    /\ sent' = << >>
    /\ UNCHANGED << channel, cluster, shardman_my_id,
                    partitions, lord_lsn, shardman_sync_replicas, got_sigterm, got_sigusr1,
                    now, reqs, cat0, tasks, pc, timeout_states, unfinished_tasks, timeout,
                    epoll_set, recv_lsn, probed, nupd, last >>

\* slist_foreach_modify has reached the end of the list
exec_tasks_walked ==
    /\ pc = "walk"
    /\ iter > Len(timeout_states)
    /\ pc' = "loop"
    /\ iter' = 0
    /\ sent' = << >>
    /\ UNCHANGED << channel, cluster, shardman_my_id,
                    partitions, lord_lsn, shardman_sync_replicas, got_sigterm, got_sigusr1,
                    now, reqs, cat0, tasks, timeout_states, unfinished_tasks, timeout,
                    epoll_set, recv_lsn, probed, nupd, last >>

\* the neighbour sessions of a move task are left as they are
finalize_cp_state_src_dst(cps) ==
    IF cps.res # TASK_FAILED
    THEN [cps EXCEPT !.src_conn = NULLCONN, !.dst_conn = NULLCONN]
    ELSE cps

\* finalize_cp_state: close pq connections, if any
finalize_cp_state(cps) ==
    IF cps.res # TASK_FAILED
    THEN LET c1 == [cps EXCEPT !.src_conn = NULLCONN, !.dst_conn = NULLCONN]
         IN  IF c1.type \in {COPYPARTTASK_MOVE_PRIMARY, COPYPARTTASK_MOVE_REPLICA}
             THEN [c1 EXCEPT !.prev_conn = NULLCONN, !.next_conn = NULLCONN]
             ELSE c1
    ELSE cps

\* exec_tasks after its loop: free the list, finalize every task, return
exec_tasks_end ==
    /\ pc = "cleanup"
    /\ timeout_states' = << >>
    /\ tasks' = [i \in TaskIds |-> finalize_cp_state(tasks[i])]
    /\ pc' = "done"
    /\ sent' = << >>
    /\ UNCHANGED << channel, cluster, shardman_my_id,
                    partitions, lord_lsn, shardman_sync_replicas, got_sigterm, got_sigusr1,
                    now, reqs, cat0, unfinished_tasks, timeout, iter, epoll_set, recv_lsn,
                    probed, nupd, last >>

\* shardlord_sigterm / shardlord_sigusr1 run while exec_tasks is not waiting.
\* exec_tasks reads the flags only in its loop condition, so a signal that
\* comes in anywhere before that test is modelled as one that comes in right
\* before it.
signal_handler(sig) ==
    /\ pc = "loop"
    /\ \/ sig = "SIGTERM" /\ ~got_sigterm
       \/ sig = "SIGUSR1" /\ ~got_sigusr1
    /\ got_sigterm' = (got_sigterm \/ sig = "SIGTERM")
    /\ got_sigusr1' = (got_sigusr1 \/ sig = "SIGUSR1")
    /\ sent' = << >>
    /\ UNCHANGED << channel, cluster, shardman_my_id,
                    partitions, lord_lsn, shardman_sync_replicas, now, reqs, cat0, tasks,
                    pc, timeout_states, unfinished_tasks, timeout, iter, epoll_set,
                    recv_lsn, probed, nupd, last >>

\* The destination's apply worker receives more WAL of the copy channel, which
\* exists once Step A has created its subscription. exec_tasks reads the
\* position only in a dispatch, so it is enough to let it move while
\* exec_tasks sleeps in epoll_wait.
wal_receive(t) ==
    /\ pc = "wait"
    /\ tasks[t].res = TASK_IN_PROGRESS
    /\ tasks[t].curstep \in {COPYPART_START_FINALSYNC, COPYPART_FINALIZE, COPYPART_DONE}
    /\ recv_lsn[t] < MaxLsn
    /\ recv_lsn' = [recv_lsn EXCEPT ![t] = @ + 1]
    /\ sent' = << >>
    /\ UNCHANGED << channel, cluster, shardman_my_id,
                    partitions, lord_lsn, shardman_sync_replicas, got_sigterm, got_sigusr1,
                    now, reqs, cat0, tasks, pc, timeout_states, unfinished_tasks, timeout,
                    iter, epoll_set, probed, nupd, last >>

Next ==
    \/ exec_tasks_begin
    \/ exec_tasks_loop
    \/ epoll_wait_timeout
    \/ \E sig \in {"SIGTERM", "SIGUSR1", "none"}, d \in 0..1 : epoll_wait_eintr(sig, d)
    \/ \E t \in TaskIds : exec_tasks_dispatch(t)
    \/ exec_tasks_skip
    \/ exec_tasks_walked
    \/ exec_tasks_end
    \/ \E sig \in {"SIGTERM", "SIGUSR1"} : signal_handler(sig)
    \/ \E t \in TaskIds : wal_receive(t)

Spec == Init /\ [][Next]_vars

\* A batch of one task, with the calls of every dispatch kept in sent. With one
\* task on the list the walk never meets a task that still sleeps: epoll_wait
\* returns 0 only when the task's waketm has come.
InitTrace == Init /\ Len(reqs) = 1

NextTrace ==
    \/ exec_tasks_begin
    \/ exec_tasks_loop
    \/ epoll_wait_timeout
    \/ \E sig \in {"SIGTERM", "SIGUSR1", "none"}, d \in 0..1 : epoll_wait_eintr(sig, d)
    \/ \E t \in TaskIds : exec_tasks_dispatch_traced(t)
    \/ exec_tasks_walked
    \/ exec_tasks_end
    \/ \E sig \in {"SIGTERM", "SIGUSR1"} : signal_handler(sig)
    \/ \E t \in TaskIds : wal_receive(t)

SpecTrace == InitTrace /\ [][NextTrace]_vars

\* -------------------------------------------------- the channel name alone
\* init_cp_state's logname, for partition names with underscores and digits
\* in them and for node ids of one and two digits. The engine stands still.
MaxNodeId == 11

ChannelParts ==
    { << "p" >>, << "1" >>, << "p", "1" >>, << "p", "_" >>, << "p", "_", "1" >>,
      << "p", "_", "1", "1" >>, << "p", "_", "_", "1" >>, << "1", "_", "1" >>,
      << "p", "_", "1", "_", "1" >> }

ChannelArgs == [part_name : ChannelParts, src_node : 1..MaxNodeId, dst_node : 1..MaxNodeId]

engine_vars == << partitions, lord_lsn, shardman_sync_replicas, got_sigterm, got_sigusr1,
                  now, reqs, cat0, tasks, pc, timeout_states, unfinished_tasks, timeout,
                  iter, epoll_set, recv_lsn, probed, nupd, last, sent >>

EngineOff ==
    /\ partitions = {}
    /\ cat0 = {}
    /\ lord_lsn = 1
    /\ shardman_sync_replicas = FALSE
    /\ got_sigterm = FALSE
    /\ got_sigusr1 = FALSE
    /\ now = 1
    /\ reqs = << >>
    /\ tasks = << >>
    /\ pc = "off"
    /\ timeout_states = << >>
    /\ unfinished_tasks = 0
    /\ timeout = 0
    /\ iter = 0
    /\ epoll_set = {}
    /\ recv_lsn = << >>
    /\ probed = << >>
    /\ nupd = << >>
    /\ last = 0
    /\ sent = << >>

InitChannel ==
    /\ EngineOff
    /\ shardman_my_id = SHMN_INVALID_NODE_ID
    /\ cluster = UNSET
    /\ \E a \in ChannelArgs : channel = [args |-> a, logname |-> UNSET]

init_cp_state_logname ==
    /\ channel.logname = UNSET
    /\ channel' = [channel EXCEPT !.logname =
                      psprintf_logname(channel.args.part_name, channel.args.src_node,
                                       channel.args.dst_node)]
    /\ UNCHANGED << cluster, shardman_my_id, engine_vars >>

SpecChannel == InitChannel /\ [][init_cp_state_logname]_vars

\* ------------------------------------------------ exec_tasks without end
\* exec_tasks with no signal and a clock that has no last tick. Only the
\* order of waketm and the current time and their distance enter exec_tasks
\* (timespeccmp, timespec_diff_millis), so time is kept relative to the
\* current time: a wait leaves the clock where it is and moves every set
\* waketm back by the time waited; a waketm already due stays due.
epoll_wait_rebase ==
    /\ pc = "wait"
    /\ timeout >= 0
    /\ tasks' = [t \in TaskIds |->
                    [tasks[t] EXCEPT !.waketm =
                        IF @ = 0 THEN 0
                        ELSE IF @ - timeout < 1 THEN 1 ELSE @ - timeout]]
    /\ pc' = "walk"
    /\ iter' = 1
    /\ timeout' = 0
    /\ sent' = << >>
    /\ UNCHANGED << channel, cluster, shardman_my_id,
                    partitions, lord_lsn, shardman_sync_replicas, got_sigterm, got_sigusr1,
                    now, reqs, cat0, timeout_states, unfinished_tasks,
                    epoll_set, recv_lsn, probed, nupd, last >>

\* a dispatch of task t in which every node accepts the connection and
\* every statement, and reports what it has
exec_tasks_dispatch_ok(t) ==
    /\ pc = "walk"
    /\ iter <= Len(timeout_states)
    /\ t = timeout_states[iter]
    /\ tasks[t].waketm <= now
    /\ Dispatched(t, exec_task(Machine(t, Quiet("none", recv_lsn[t]))), FALSE)
    /\ UNCHANGED << channel, cluster, shardman_my_id,
                    shardman_sync_replicas, got_sigterm, got_sigusr1, now, reqs, cat0,
                    pc, timeout, recv_lsn >>

\* the batches of one task and of two
InitLive == Init /\ Len(reqs) <= 2

\* The scheduler is one sequential program: its next step is taken (weak
\* fairness). The remote side may fail any number of times, but a dispatch
\* that could be answered well again and again is answered well in the end,
\* and a destination that could receive more WAL again and again does
\* (strong fairness; the one of exec_tasks_dispatch_ok is written out, with
\* the guard of the dispatch for its enabling condition).
SpecLive ==
    /\ InitLive
    /\ [][\/ exec_tasks_begin
          \/ exec_tasks_loop
          \/ epoll_wait_rebase
          \/ \E t \in TaskIds : exec_tasks_dispatch(t)
          \/ exec_tasks_skip
          \/ exec_tasks_walked
          \/ exec_tasks_end
          \/ \E t \in TaskIds : wal_receive(t)]_vars
    /\ WF_vars(\/ exec_tasks_begin
               \/ exec_tasks_loop
               \/ epoll_wait_rebase
               \/ exec_tasks_skip
               \/ exec_tasks_walked
               \/ exec_tasks_end)
    /\ \A t \in 1..MaxTasks :
           /\ \/ <>[](~(/\ t \in TaskIds
                         /\ pc = "walk"
                         /\ iter <= Len(timeout_states)
                         /\ t = timeout_states[iter]
                         /\ tasks[t].waketm <= now))
              \/ []<><<t \in TaskIds /\ exec_tasks_dispatch_ok(t)>>_vars
           /\ SF_vars(t \in TaskIds /\ wal_receive(t))

\* ---------------------------------------------------- calc_timeout alone
\* calc_timeout on every list of tasks without repetition, the empty list
\* too, with wake times before, at and after the current time.
InitTimeout ==
    /\ channel = UNSET
    /\ shardman_my_id = SHMN_INVALID_NODE_ID
    /\ cluster = UNSET
    /\ partitions = {}
    /\ cat0 = {}
    /\ lord_lsn = 1
    /\ shardman_sync_replicas = FALSE
    /\ got_sigterm = FALSE
    /\ got_sigusr1 = FALSE
    /\ now \in 1..MaxTime
    /\ reqs = << >>
    /\ \E w \in [1..MaxTasks -> 1..(MaxTime + shardman_poll_interval)] :
           tasks = [i \in 1..MaxTasks |->
                       [ZeroTask EXCEPT !.res = TASK_IN_PROGRESS,
                                        !.exec_res = TASK_WAKEMEUP,
                                        !.waketm = w[i]]]
    /\ timeout_states \in
           { l \in UNION { [1..n -> 1..MaxTasks] : n \in 0..MaxTasks } :
               \A i, j \in 1..Len(l) : i # j => l[i] # l[j] }
    /\ unfinished_tasks = Len(timeout_states)
    /\ pc = "calc_timeout"
    /\ timeout = 0
    /\ iter = 0
    /\ epoll_set = {}
    /\ recv_lsn = [i \in 1..MaxTasks |-> 0]
    /\ probed = [i \in 1..MaxTasks |-> -1]
    /\ nupd = [i \in 1..MaxTasks |-> 0]
    /\ last = 0
    /\ sent = << >>

\* timeout = calc_timeout(&timeout_states)
calc_timeout_call ==
    /\ pc = "calc_timeout"
    /\ calc_timeout_assert(timeout_states, tasks)
    /\ timeout' = calc_timeout(timeout_states, tasks, now)
    /\ pc' = "epoll_wait"
    /\ UNCHANGED << channel, cluster, shardman_my_id,
                    partitions, lord_lsn, shardman_sync_replicas,
                    got_sigterm, got_sigusr1, now, reqs, cat0, tasks, timeout_states,
                    unfinished_tasks, iter, epoll_set, recv_lsn, probed, nupd, last,
                    sent >>

SpecTimeout == InitTimeout /\ [][calc_timeout_call]_vars

\* ------------------------------------- the data channel names of a move
\* init_mp_state on every move of partition "p" or "q" in the engine's
\* catalogs, on a shardlord with any setting of shardman.my_id.
InitLname ==
    /\ EngineOff
    /\ cluster = UNSET
    /\ shardman_my_id \in Nodes \cup {SHMN_INVALID_NODE_ID}
    /\ \E a \in [cat : InitCatalogs, part_name : {"p", "q"},
                src_node : Nodes \cup {SHMN_INVALID_NODE_ID}, dst_node : Nodes] :
           channel = [args |-> a, done |-> FALSE, mps |-> ZeroTask,
                      prev_slot |-> UNSET, prev_standby |-> UNSET,
                      dst_slot |-> UNSET, dst_standby |-> UNSET]

\* init_mp_state: the names it puts into prev_sql, sync_standby_prev_sql,
\* dst_sql and sync_standby_dst_sql
init_mp_state_lname ==
    /\ ~channel.done
    /\ LET mps == init_mp_state(channel.args.cat, now, channel.args.part_name,
                                channel.args.src_node, channel.args.dst_node)
           prev == mps.res # TASK_FAILED /\ mps.prev_node # SHMN_INVALID_NODE_ID
           next == mps.res # TASK_FAILED /\ mps.next_node # SHMN_INVALID_NODE_ID
       IN  channel' =
             [channel EXCEPT
                !.done = TRUE,
                !.mps = mps,
                !.prev_slot = IF prev THEN prev_dst_lname(mps, shardman_my_id) ELSE UNSET,
                !.prev_standby = IF prev THEN prev_dst_lname(mps, shardman_my_id)
                                 ELSE UNSET,
                !.dst_slot = IF next THEN dst_next_lname(mps) ELSE UNSET,
                !.dst_standby = IF next THEN dst_next_lname(mps) ELSE UNSET]
    /\ UNCHANGED << cluster, shardman_my_id, engine_vars >>

SpecLname == InitLname /\ [][init_mp_state_lname]_vars

\* ------------------------------------------- Step A's scripts on the nodes
\* The objects the scripts of cp_start_tablesync name: the publication and the
\* replication slot of the copy channel on the source, the partition's table
\* and the channel's subscription on the destination. Each is absent, left
\* by an earlier attempt, or made by the statements executed since.
ABSENT == "absent"
StaleObjects ==
    [pub : {ABSENT, "stale"}, slot : {ABSENT, "stale"},
     tab : {ABSENT, "stale partial", "stale full"},
     sub : {ABSENT, "stale syncing", "stale ready"}]
CleanObjects == [pub |-> ABSENT, slot |-> ABSENT, tab |-> ABSENT, sub |-> ABSENT]

\* The statements of cps->dst_drop_sub_sql, cps->src_create_pub_and_rs_sql and
\* cps->dst_create_tab_and_sub_sql, in the order cp_start_tablesync runs them
tablesync_stmts ==
    dst_drop_sub_sql(ZeroTask) \o src_create_pub_and_rs_sql(ZeroTask)
        \o dst_create_tab_and_sub_sql(ZeroTask)

\* One statement, executed in its own transaction. A drop "if exists" removes
\* the object or does nothing; dropping a subscription also drops the slot it
\* holds on the publisher; a create fails when the object is there.
sql_exec(c, stmt) ==
    CASE stmt = "drop subscription if exists" ->
            [c EXCEPT !.objs.sub = ABSENT,
                      !.objs.slot = IF c.objs.sub = ABSENT THEN @ ELSE ABSENT]
      [] stmt = "drop publication if exists" -> [c EXCEPT !.objs.pub = ABSENT]
      [] stmt = "create publication" ->
            IF c.objs.pub = ABSENT THEN [c EXCEPT !.objs.pub = "created"]
            ELSE [c EXCEPT !.err = "already exists"]
      [] stmt = "select shardman.drop_repslot" -> [c EXCEPT !.objs.slot = ABSENT]
      [] stmt = "select pg_create_logical_replication_slot" ->
            IF c.objs.slot = ABSENT THEN [c EXCEPT !.objs.slot = "created"]
            ELSE [c EXCEPT !.err = "already exists"]
      [] stmt = "drop table if exists" -> [c EXCEPT !.objs.tab = ABSENT]
      [] stmt = "create table like" ->
            IF c.objs.tab = ABSENT THEN [c EXCEPT !.objs.tab = "created empty"]
            ELSE [c EXCEPT !.err = "already exists"]
      [] stmt = "create subscription" ->
            IF c.objs.sub = ABSENT THEN [c EXCEPT !.objs.sub = "created syncing"]
            ELSE [c EXCEPT !.err = "already exists"]

\* the statements from position at on, each on the result of the one before,
\* up to the first that fails
RECURSIVE tablesync_exec_from(_, _)
tablesync_exec_from(c, at) ==
    IF at > Len(tablesync_stmts) \/ c.err # "" THEN c
    ELSE tablesync_exec_from(sql_exec(c, tablesync_stmts[at]), at + 1)

InitTablesync ==
    /\ EngineOff
    /\ channel = UNSET
    /\ shardman_my_id = SHMN_INVALID_NODE_ID
    /\ \E o \in StaleObjects : cluster = [before |-> o, objs |-> o, at |-> 1, err |-> ""]

\* remote_exec's PQexec of the next statement succeeds or is refused
cp_start_tablesync_stmt ==
    /\ cluster.at <= Len(tablesync_stmts)
    /\ cluster.err = ""
    /\ cluster' = [sql_exec(cluster, tablesync_stmts[cluster.at]) EXCEPT !.at = @ + 1]
    /\ UNCHANGED << channel, shardman_my_id, engine_vars >>

\* remote_exec's PQexec of the next statement fails for another reason and
\* has no effect; the next attempt starts with the first script again
cp_start_tablesync_retry ==
    /\ cluster.at <= Len(tablesync_stmts)
    /\ cluster.at > 1
    /\ cluster.err = ""
    /\ cluster' = [cluster EXCEPT !.at = 1]
    /\ UNCHANGED << channel, shardman_my_id, engine_vars >>

SpecTablesync ==
    InitTablesync /\ [][cp_start_tablesync_stmt \/ cp_start_tablesync_retry]_vars

\* ------------------------------------------------------------ properties
Range(s) == { s[i] : i \in 1..Len(s) }

\* the position of a step in StartTablesync -> StartFinalsync -> Finalize -> Done
StepRank(step) ==
    CASE step = COPYPART_START_TABLESYNC -> 1
      [] step = COPYPART_START_FINALSYNC -> 2
      [] step = COPYPART_FINALIZE -> 3
      [] step = COPYPART_DONE -> 4
      [] OTHER -> 0

\* the position of a remote call in the order of the phases: Step A 11..15,
\* Step B 21..23, Step C 31, reconfiguration 41, metadata update 51; 0 for
\* the opening of a session
CallRank(e) ==
    CASE e.call = "connect" \/ e.script = "s" -> 0
      [] e.call = "probe_meta" /\ e.conn = "src_conn" -> 11
      [] e.call = "probe_meta" -> 12
      [] e.script = "dst_drop_sub_sql" -> 13
      [] e.script = "src_create_pub_and_rs_sql" -> 14
      [] e.script = "dst_create_tab_and_sub_sql" -> 15
      [] e.call = "substate" -> 21
      [] e.call = "readonly" -> 22
      [] e.call = "wal" -> 23
      [] e.call = "probe_copy" -> 31
      [] e.call = "spi" -> 51
      [] OTHER -> 41

PhaseOf(e) == CallRank(e) \div 10

\* the call that ends the step of rank r was answered "ok" among log[1..n]
StepPassed(log, r, n) ==
    \E i \in 1..n :
        /\ log[i].ans = "ok"
        /\ CASE r = 1 -> /\ log[i].script = "dst_create_tab_and_sub_sql"
                         /\ log[i].stmt = "create subscription"
             [] r = 2 -> log[i].call = "wal"
             [] r = 3 -> log[i].call = "probe_copy"
             [] OTHER -> FALSE

\* C1: the step of every task only moves forward along StartTablesync ->
\* StartFinalsync -> Finalize -> Done: no step of the program sets it back,
\* and a dispatch moves it past a step only if that step's last call was
\* answered in this dispatch (no step is skipped).
C1_StepForward ==
    [][\A t \in TaskIds :
          /\ StepRank(tasks'[t].curstep) >= StepRank(tasks[t].curstep)
          /\ \A r \in 1..3 :
                (StepRank(tasks[t].curstep) <= r /\ r < StepRank(tasks'[t].curstep))
                    => StepPassed(sent', r, Len(sent'))]_vars

\* C1 witness: the task is at Done and waits for a retry of its reconfiguration
C1_Witness ==
    \E t \in TaskIds : /\ tasks[t].curstep = COPYPART_DONE
                       /\ tasks[t].exec_res = TASK_WAKEMEUP
                       /\ sent # << >>

\* C2: the metadata update of a task runs at most once; once it has run the
\* task's result is Success and the task is off the timeout list, and a task
\* has result Success only if its update has run.
C2_UpdateOnce ==
    \A t \in TaskIds :
        /\ nupd[t] <= 1
        /\ nupd[t] = 1 => /\ tasks[t].res = TASK_SUCCESS
                          /\ tasks[t].exec_res = TASK_DONE
                          /\ t \notin Range(timeout_states)
        /\ tasks[t].res = TASK_SUCCESS => nupd[t] = 1

\* C2 witness: one task has run its update while another is still scheduled
C2_Witness ==
    \E t \in TaskIds : nupd[t] = 1 /\ pc = "walk" /\ timeout_states # << >>

\* C3: in every dispatch the calls go out in the order Step A, Step B,
\* Step C, reconfiguration, metadata update, starting no earlier than the
\* task's step; a call of a later phase goes out only after the earlier
\* phases have passed; every call before the last was answered "ok"; the
\* metadata update is the last call, made with the step at Done.
C3_PhaseOrder ==
    [][sent' # << >> =>
         /\ \A i, j \in 1..Len(sent') :
               (i < j /\ CallRank(sent'[i]) # 0 /\ CallRank(sent'[j]) # 0)
                   => CallRank(sent'[i]) <= CallRank(sent'[j])
         /\ \A i \in 1..Len(sent') :
               /\ CallRank(sent'[i]) # 0 =>
                     PhaseOf(sent'[i]) >= StepRank(tasks[last'].curstep)
               /\ i < Len(sent') => sent'[i].ans = "ok"
               /\ \A r \in 1..3 :
                     (StepRank(tasks[last'].curstep) <= r /\ r < PhaseOf(sent'[i]))
                         => StepPassed(sent', r, i - 1)
               /\ sent'[i].call = "spi" =>
                     /\ i = Len(sent')
                     /\ tasks'[last'].curstep = COPYPART_DONE
                     /\ \A r \in 1..3 :
                           StepRank(tasks[last'].curstep) <= r
                               => StepPassed(sent', r, i - 1)]_vars

\* C3 witness: a dispatch that ran Step A to the metadata update
C3_Witness ==
    /\ Len(sent) > 0
    /\ sent[Len(sent)].call = "spi"
    /\ \E i \in 1..Len(sent) : sent[i].call = "probe_meta"
    /\ \E i \in 1..Len(sent) : sent[i].script = "next_sql"

\* C4: a task is at Done only if a probe of its copy subscription returned a
\* received_lsn at or past its sync_point, and the sync_point of a task with
\* result Success is at or below what the destination has received.
C4_DoneAfterSync ==
    \A t \in TaskIds :
        /\ tasks[t].curstep = COPYPART_DONE => probed[t] >= tasks[t].sync_point
        /\ probed[t] <= LsnAt(recv_lsn[t])
        /\ tasks[t].res = TASK_SUCCESS => tasks[t].sync_point <= LsnAt(recv_lsn[t])

\* C4 witness: a task succeeded whose sync_point lies past a hi/lo carry
C4_Witness ==
    \E t \in TaskIds : /\ tasks[t].res = TASK_SUCCESS
                       /\ tasks[t].sync_point = LsnAt(2)
                       /\ probed[t] = LsnAt(2)

\* C5: no step of the program changes a task's result to Failed: a task is
\* Failed only from its construction on.
C5_FailedOnlyAtBirth ==
    [][\A t \in TaskIds :
          tasks'[t].res = TASK_FAILED => tasks[t].res = TASK_FAILED]_vars

\* C5 witness: a task in progress that lost a session and waits for a retry
C5_Witness ==
    \E t \in TaskIds : /\ tasks[t].res = TASK_IN_PROGRESS
                       /\ tasks[t].exec_res = TASK_WAKEMEUP
                       /\ tasks[t].curstep = COPYPART_START_FINALSYNC
                       /\ tasks[t].dst_conn = NULLCONN
                       /\ tasks[t].src_conn = OPENCONN

RowsOf(cat, part) == { r \in cat : r.part_name = part }

\* no other task of the batch works on the partition of task t
Alone(t) ==
    \A u \in TaskIds \ {t} :
        tasks[u].res = TASK_FAILED \/ tasks[u].part_name # tasks[t].part_name

\* the rows of the partitions no task of the batch works on are as they were
OthersUnchanged ==
    \A r \in cat0 \cup partitions :
        (\A u \in TaskIds : tasks[u].res = TASK_FAILED
                              \/ tasks[u].part_name # r.part_name)
            => (r \in cat0 /\ r \in partitions)

\* row r with every reference to src replaced by dst
MovedRow(r, src, dst) ==
    [r EXCEPT !.owner = IF @ = src THEN dst ELSE @,
              !.prv = IF @ = {src} THEN {dst} ELSE @,
              !.nxt = IF @ = {src} THEN {dst} ELSE @]

IsMove(t) == tasks[t].type \in {COPYPARTTASK_MOVE_PRIMARY, COPYPARTTASK_MOVE_REPLICA}

\* C6: after a successful move of partition P from src to dst the rows of P
\* are the rows P had at the start with src replaced by dst in owner, prv and
\* nxt: src owned a row, no row of P refers to src any more, there are as
\* many rows as before, and the rows of the other partitions are unchanged;
\* ('p',1,NULL,3,'r'),('p',3,1,NULL,'r') with move('p',1,2) gives
\* ('p',2,NULL,3,'r'),('p',3,2,NULL,'r').
C6_MoveResult ==
    /\ \A t \in TaskIds :
          (IsMove(t) /\ tasks[t].res = TASK_SUCCESS /\ Alone(t)) =>
              /\ RowsOf(partitions, tasks[t].part_name) =
                     { MovedRow(r, tasks[t].src_node, tasks[t].dst_node) :
                         r \in RowsOf(cat0, tasks[t].part_name) }
              /\ Cardinality(RowsOf(partitions, tasks[t].part_name)) =
                     Cardinality(RowsOf(cat0, tasks[t].part_name))
              /\ \E r \in RowsOf(cat0, tasks[t].part_name) :
                     /\ r.owner = tasks[t].src_node
                     /\ [r EXCEPT !.owner = tasks[t].dst_node,
                                  !.prv = {}, !.nxt = {}]
                          \in { [q EXCEPT !.prv = {}, !.nxt = {}] : q \in partitions }
              /\ \A r \in RowsOf(partitions, tasks[t].part_name) :
                     /\ r.owner # tasks[t].src_node
                     /\ tasks[t].src_node \notin r.prv
                     /\ tasks[t].src_node \notin r.nxt
              /\ reqs[t].src # SHMN_INVALID_NODE_ID => tasks[t].src_node = reqs[t].src
              /\ tasks[t].dst_node = reqs[t].dst
              /\ OthersUnchanged
    /\ (/\ reqs = << MoveReq("p", 1, 2) >>
        /\ cat0 = { Row("p", 1, SQLNULL, {3}, "r"), Row("p", 3, {1}, SQLNULL, "r") }
                      \cup ChainRows("q", QChain, "s")
        /\ tasks[1].res = TASK_SUCCESS)
       => partitions = { Row("p", 2, SQLNULL, {3}, "r"), Row("p", 3, {2}, SQLNULL, "r") }
                          \cup ChainRows("q", QChain, "s")

\* C6 witness: a replica with both neighbours has been moved from 1 to 2
C6_Witness ==
    /\ tasks[1].res = TASK_SUCCESS
    /\ tasks[1].type = COPYPARTTASK_MOVE_REPLICA
    /\ cat0 = ChainRows("p", <<3, 1, 4>>, "r") \cup ChainRows("q", QChain, "s")
    /\ partitions = ChainRows("p", <<3, 2, 4>>, "r") \cup ChainRows("q", QChain, "s")

\* C7: a successful create-replica of partition P on dst has as source the
\* one row of P with nxt NULL at the start (the tail), and the rows of P are
\* then the rows P had with the tail's nxt set to dst, plus the one new row
\* (P, dst, prv = old tail, nxt NULL, relation of P); the rows of the other
\* partitions are unchanged; ('p',1,NULL,NULL,'r') with create_replica('p',2)
\* gives ('p',1,NULL,2,'r'),('p',2,1,NULL,'r').
C7_ReplicaResult ==
    /\ \A t \in TaskIds :
          (/\ tasks[t].type = COPYPARTTASK_CREATE_REPLICA
           /\ tasks[t].res = TASK_SUCCESS /\ Alone(t)) =>
              /\ Cardinality({ r \in RowsOf(cat0, tasks[t].part_name) :
                                 r.nxt = SQLNULL }) = 1
              /\ \A tail \in { r \in RowsOf(cat0, tasks[t].part_name) : r.nxt = SQLNULL } :
                     /\ tasks[t].src_node = tail.owner
                     /\ RowsOf(partitions, tasks[t].part_name) =
                            (RowsOf(cat0, tasks[t].part_name) \ {tail}) \cup
                            { [tail EXCEPT !.nxt = {reqs[t].dst}],
                              Row(tasks[t].part_name, reqs[t].dst, {tail.owner},
                                  SQLNULL, tail.relation) }
              /\ Cardinality(RowsOf(partitions, tasks[t].part_name)) =
                     Cardinality(RowsOf(cat0, tasks[t].part_name)) + 1
              /\ OthersUnchanged
    /\ (/\ reqs = << ReplicaReq("p", 2) >>
        /\ cat0 = { Row("p", 1, SQLNULL, SQLNULL, "r") } \cup ChainRows("q", QChain, "s")
        /\ tasks[1].res = TASK_SUCCESS)
       => partitions = { Row("p", 1, SQLNULL, {2}, "r"), Row("p", 2, {1}, SQLNULL, "r") }
                          \cup ChainRows("q", QChain, "s")

\* C7 witness: a chain of three has got a fourth replica
C7_Witness ==
    /\ tasks[1].res = TASK_SUCCESS
    /\ tasks[1].type = COPYPARTTASK_CREATE_REPLICA
    /\ partitions = ChainRows("p", <<3, 1, 4, 2>>, "r") \cup ChainRows("q", QChain, "s")

\* the command rq violates a precondition on the catalog cat
Violates(rq, cat) ==
    \/ \E r \in cat : r.part_name = rq.part_name /\ r.owner = rq.dst
    \/ /\ rq.kind = "move_part"
       /\ IF rq.src = SHMN_INVALID_NODE_ID
          THEN RowsOf(cat, rq.part_name) = {}
          ELSE ~\E r \in cat : r.part_name = rq.part_name /\ r.owner = rq.src
    \/ /\ rq.kind = "create_replica"
       /\ ~\E r \in cat : r.part_name = rq.part_name /\ r.nxt = SQLNULL

\* C8: a task built from a command that violates a precondition has result
\* Failed, and a Failed task is never on the timeout list, has never been
\* dispatched, holds no session and has run no metadata update.
C8_BornFailed ==
    \A t \in TaskIds :
        /\ Violates(reqs[t], cat0) => tasks[t].res = TASK_FAILED
        /\ tasks[t].res = TASK_FAILED =>
              /\ t \notin Range(timeout_states)
              /\ last # t
              /\ tasks[t].exec_res = UNSET
              /\ \A c \in ConnNames : tasks[t][c] = NULLCONN
              /\ nupd[t] = 0

\* C8 witness: exec_tasks has returned from a batch of a task born Failed
\* and a task that succeeded
C8_Witness ==
    /\ pc = "done"
    /\ \E t, u \in TaskIds : /\ Violates(reqs[t], cat0)
                              /\ tasks[t].res = TASK_FAILED
                              /\ tasks[u].res = TASK_SUCCESS

\* C9: a task that is not Failed has distinct source and destination, and
\* the catalog it was built on holds no row of its partition owned by its
\* destination; the batches include moves with src = dst and replicas asked
\* for on the node that holds the tail.
C9_DistinctNodes ==
    \A t \in TaskIds :
        tasks[t].res # TASK_FAILED =>
            /\ tasks[t].src_node # tasks[t].dst_node
            /\ tasks[t].src_node # SHMN_INVALID_NODE_ID
            /\ tasks[t].dst_node = reqs[t].dst
            /\ ~\E r \in cat0 : /\ r.part_name = tasks[t].part_name
                                 /\ r.owner = tasks[t].dst_node

\* C9 witness: a move asked for with src = dst is Failed, the move of
\* another partition in the same batch has succeeded
C9_Witness ==
    /\ reqs[1] = MoveReq("p", 1, 1)
    /\ tasks[1].res = TASK_FAILED
    /\ \E t \in TaskIds : tasks[t].res = TASK_SUCCESS /\ tasks[t].src_node = 2

\* the sub-step of mp_rebuild_lr a call belongs to, 0 for any other call
MpRank(e) ==
    CASE e.script = "prev_sql" -> 1
      [] e.script = "dst_sql" -> 2
      [] e.script = "sync_standby_prev_sql" -> 3
      [] e.script = "next_sql" -> 4
      [] e.script = "sync_standby_dst_sql" -> 5
      [] OTHER -> 0

\* the session sub-step k uses
MpConn(k) == << "prev_conn", "dst_conn", "prev_conn", "next_conn", "dst_conn" >>[k]

\* sub-step k applies to the task cps
MpApplies(cps, k) ==
    CASE k = 1 -> cps.prev_node # SHMN_INVALID_NODE_ID
      [] k = 2 -> TRUE
      [] k = 3 -> shardman_sync_replicas /\ cps.prev_node # SHMN_INVALID_NODE_ID
      [] k = 4 -> cps.next_node # SHMN_INVALID_NODE_ID
      [] k = 5 -> shardman_sync_replicas /\ cps.next_node # SHMN_INVALID_NODE_ID

\* the statements of sub-step k
MpScript(cps, k) ==
    << prev_sql(cps), dst_sql(cps), sync_standby_prev_sql(cps), next_sql(cps),
       sync_standby_dst_sql(cps) >>[k]

\* every statement of sub-step k was answered "ok" among log[1..n]
MpDone(log, cps, k, n) ==
    Cardinality({ j \in 1..n : MpRank(log[j]) = k /\ log[j].ans = "ok" })
        = Len(MpScript(cps, k))

HasNeighbour(cps) ==
    cps.prev_node # SHMN_INVALID_NODE_ID \/ cps.next_node # SHMN_INVALID_NODE_ID

\* the dispatch just made was one of a move task and ended with the metadata update
MoveUpdated ==
    /\ last # 0
    /\ IsMove(last)
    /\ Len(sent) > 0
    /\ sent[Len(sent)].call = "spi"

\* C11 as stated: every move task that runs its metadata update has run the
\* destination reconfiguration script on the destination before it, a move
\* whose source has neither neighbour included.
C11_DstScriptAlways ==
    MoveUpdated =>
        \E i \in 1..(Len(sent) - 1) :
            /\ sent[i].script = "dst_sql"
            /\ sent[i].conn = "dst_conn"
            /\ sent[i].ans = "ok"

\* C11: a move task whose source has a previous or a next neighbour runs
\* every statement of the destination reconfiguration script on the
\* destination, successfully, before its metadata update; a move whose source
\* has neither neighbour runs no reconfiguration script at all, the
\* destination script included, and opens no neighbour session: its metadata
\* update follows the copy directly. The update makes the task a Success.
C11_DstScript ==
    MoveUpdated =>
        /\ tasks[last].res = TASK_SUCCESS
        /\ IF HasNeighbour(tasks[last])
           THEN /\ MpDone(sent, tasks[last], 2, Len(sent) - 1)
                /\ \A i \in 1..Len(sent) :
                       MpRank(sent[i]) = 2 => sent[i].conn = "dst_conn" /\ sent[i].ans = "ok"
           ELSE /\ \A i \in 1..Len(sent) :
                       /\ MpRank(sent[i]) = 0
                       /\ sent[i].conn \notin {"prev_conn", "next_conn"}
                       /\ i < Len(sent) => CallRank(sent[i]) < 40
                /\ tasks[last].prev_conn = NULLCONN
                /\ tasks[last].next_conn = NULLCONN

\* C11 witness: a move whose source has no neighbour has run its metadata
\* update in a dispatch that started at Step C
C11_Witness ==
    /\ MoveUpdated
    /\ ~HasNeighbour(tasks[last])
    /\ sent[1].call = "probe_copy"

\* the call is part of a sync-standby script
IsSyncStandby(e) ==
    \/ e.script \in {"sync_standby_prev_sql", "sync_standby_dst_sql", "sync_standby_sql"}
    \/ e.stmt = "select shardman.ensure_sync_standby"

\* C12: with shardman_sync_replicas off, no dispatch of a move or
\* create-replica task, first attempt or retry, sends an ensure_sync_standby
\* statement or any other statement of a sync-standby script to any node.
C12_NoSyncStandby ==
    ~shardman_sync_replicas => \A i \in 1..Len(sent) : ~IsSyncStandby(sent[i])

\* C12 witness: with the mode off, a move with both neighbours has finished
\* its reconfiguration and run its metadata update
C12_Witness ==
    /\ ~shardman_sync_replicas
    /\ MoveUpdated
    /\ tasks[last].prev_node # SHMN_INVALID_NODE_ID
    /\ tasks[last].next_node # SHMN_INVALID_NODE_ID
    /\ \E i \in 1..Len(sent) : sent[i].script = "next_sql"

\* the dispatch just made was one of a create-replica task and ended with the
\* metadata update
ReplicaUpdated ==
    /\ last # 0
    /\ tasks[last].type = COPYPARTTASK_CREATE_REPLICA
    /\ Len(sent) > 0
    /\ sent[Len(sent)].call = "spi"

\* C13: a create-replica task that runs its metadata update has, before it,
\* released the source partition from read-only (readonly_table_off answered
\* "ok" on the source), with shardman_sync_replicas on or off.
C13_ReadonlyReleased ==
    ReplicaUpdated =>
        \E i \in 1..(Len(sent) - 1) :
            /\ sent[i].stmt = "select shardman.readonly_table_off"
            /\ sent[i].conn = "src_conn"
            /\ sent[i].ans = "ok"

\* the sub-step of cr_rebuild_lr a call belongs to, 0 for any other call
CrRank(e) ==
    CASE e.script = "drop_cp_sub_sql" -> 1
      [] e.script = "create_data_pub_sql" -> 2
      [] e.script = "create_data_sub_sql" -> 3
      [] e.script = "sync_standby_sql" -> 4
      [] OTHER -> 0

\* the session sub-step k of cr_rebuild_lr uses
CrConn(k) == << "dst_conn", "src_conn", "dst_conn", "src_conn" >>[k]

\* sub-step k of cr_rebuild_lr applies
CrApplies(k) == k < 4 \/ shardman_sync_replicas

\* the statements of sub-step k
CrScript(cps, k) ==
    << drop_cp_sub_sql(cps), create_data_pub_sql(cps), create_data_sub_sql(cps),
       sync_standby_sql(cps) >>[k]

\* every statement of sub-step k was answered "ok" among log[1..n]
CrDone(log, cps, k, n) ==
    Cardinality({ j \in 1..n : CrRank(log[j]) = k /\ log[j].ans = "ok" })
        = Len(CrScript(cps, k))

\* C14: in every dispatch of a create-replica task the scripts of the
\* reconfiguration go out in the order drop copy subscription on dst, create
\* data publication and slot on src, create data subscription on dst,
\* sync-standby and read-only release on src (only with sync-replica mode
\* on); a statement of a sub-step goes out only when every statement of the
\* earlier sub-steps was answered "ok" in this dispatch, so the data
\* subscription is never created without the data publication script having
\* succeeded, and the metadata update goes out only after all that apply.
C14_ReplicaOrder ==
    (last # 0 /\ tasks[last].type = COPYPARTTASK_CREATE_REPLICA) =>
        \A i \in 1..Len(sent) :
            /\ CrRank(sent[i]) # 0 =>
                  /\ sent[i].conn = CrConn(CrRank(sent[i]))
                  /\ sent[i].open
                  /\ CrApplies(CrRank(sent[i]))
                  /\ \A j \in 1..(i - 1) : CrRank(sent[j]) <= CrRank(sent[i])
                  /\ \A k \in 1..(CrRank(sent[i]) - 1) :
                        CrApplies(k) => CrDone(sent, tasks[last], k, i - 1)
            /\ sent[i].call = "spi" =>
                  \A k \in 1..4 : CrApplies(k) => CrDone(sent, tasks[last], k, i - 1)

\* C14 witness: a dispatch of a create-replica task in which the creation of
\* the slot, the second statement of the data publication script, failed
C14_Witness ==
    /\ last # 0
    /\ tasks[last].type = COPYPARTTASK_CREATE_REPLICA
    /\ Len(sent) > 0
    /\ sent[Len(sent)].script = "create_data_pub_sql"
    /\ sent[Len(sent)].stmt = "select pg_create_logical_replication_slot"
    /\ sent[Len(sent)].ans = "fail"

\* C15: once exec_tasks has returned, after the last task finished or after
\* a signal, every session of every task of the batch is closed: source,
\* destination, previous neighbour and next neighbour, whatever the task's
\* result.
C15_SessionsClosed ==
    pc = "done" => \A t \in TaskIds : \A c \in ConnNames : tasks[t][c] = NULLCONN

\* C15 witness: exec_tasks has returned on a signal with a task still in
\* progress past Step B, beside a task born Failed
C15_Witness ==
    /\ pc = "done"
    /\ signal_pending
    /\ \E t, u \in TaskIds :
           /\ tasks[t].res = TASK_IN_PROGRESS
           /\ tasks[t].curstep \in {COPYPART_FINALIZE, COPYPART_DONE}
           /\ tasks[u].res = TASK_FAILED

\* C16: a dispatch of a task whose step is already Done issues no call of
\* Step A, Step B or Step C (no probe, no drop or create of the copy channel
\* or table, no substate query, no read-only, no sync-point capture): it
\* re-enters at the start of the reconfiguration, and the step stays Done.
C16_NoRecopy ==
    [][\A t \in TaskIds :
          tasks[t].curstep = COPYPART_DONE =>
              /\ tasks'[t].curstep = COPYPART_DONE
              /\ last' = t =>
                    /\ \A i \in 1..Len(sent') : PhaseOf(sent'[i]) \in {0, 4, 5}
                    /\ \A i \in 1..Len(sent') :
                           PhaseOf(sent'[i]) # 0 =>
                               \A j \in 1..(i - 1) : PhaseOf(sent'[j]) = 0
                                                           \/ sent'[j].ans = "ok"]_vars

\* C16 witness: a dispatch that started with the step at Done, after a
\* failure in the reconfiguration, ran the reconfiguration from its first
\* script and the metadata update
C16_Witness ==
    /\ last # 0
    /\ Len(sent) > 1
    /\ sent[Len(sent)].call = "spi"
    /\ \A i \in 1..Len(sent) : PhaseOf(sent[i]) \in {0, 4, 5}
    /\ \E i \in 1..Len(sent) : sent[i].script \in {"prev_sql", "drop_cp_sub_sql"}

\* the dispatch just made ended on a connection attempt or a remote statement
\* or query that failed
EndedByFailure ==
    /\ last # 0
    /\ Len(sent) > 0
    /\ sent[Len(sent)].ans = "fail"

\* the timeout handed to epoll_wait is not negative and at most the time left
\* to the wake time of every task on the list
TimeoutWithinWake ==
    (pc = "wait" /\ timeout_states # << >>) =>
        /\ timeout >= 0
        /\ \A t \in Range(timeout_states) :
               timeout <= (IF tasks[t].waketm > now THEN tasks[t].waketm - now ELSE 0)

\* C17 as stated: a dispatch that ended on a failed connection attempt or a
\* failed remote statement or query, in Step A, B, C or the reconfiguration,
\* leaves the task at WakeMeUp with wake time now + cmd_retry_naptime.
C17_RetryNaptimeAlways ==
    EndedByFailure =>
        /\ tasks[last].exec_res = TASK_WAKEMEUP
        /\ tasks[last].waketm = now + shardman_cmd_retry_naptime

\* C17: a dispatch that ended on a failed connection attempt or a failed
\* remote statement or query leaves the task at WakeMeUp, in progress, with
\* wake time now + cmd_retry_naptime, except when the query that failed is the
\* received_lsn probe of Step C: then the wake time is now + poll_interval.
\* The timeout of the next wait is at most the time left to that wake time.
C17_RetryInterval ==
    /\ EndedByFailure =>
          /\ tasks[last].exec_res = TASK_WAKEMEUP
          /\ tasks[last].res = TASK_IN_PROGRESS
          /\ tasks[last].waketm =
                 now + (IF sent[Len(sent)].call = "probe_copy"
                        THEN shardman_poll_interval ELSE shardman_cmd_retry_naptime)
          /\ tasks[last][sent[Len(sent)].conn] = NULLCONN
    /\ TimeoutWithinWake

\* C17 witness: the received_lsn probe of Step C failed and the task sleeps
\* for the poll interval
C17_Witness ==
    /\ EndedByFailure
    /\ sent[Len(sent)].call = "probe_copy"
    /\ tasks[last].curstep = COPYPART_FINALIZE
    /\ tasks[last].waketm = now + shardman_poll_interval

\* the dispatch just made ended on an answer that was received but did not
\* let the task go on: a subscription that is not ready, a result that is
\* not one row, a NULL received_lsn, a received_lsn below the position waited
\* for
EndedNotReady ==
    /\ last # 0
    /\ Len(sent) > 0
    /\ \/ sent[Len(sent)].ans \in {"notready", "rows", "null", "lag"}
       \/ /\ sent[Len(sent)].call = "probe_copy"
          /\ sent[Len(sent)].ans = "ok"
          /\ tasks[last].curstep = COPYPART_FINALIZE

\* the step whose call ended the dispatch
StepOfLastCall ==
    CASE PhaseOf(sent[Len(sent)]) = 1 -> COPYPART_START_TABLESYNC
      [] PhaseOf(sent[Len(sent)]) = 2 -> COPYPART_START_FINALSYNC
      [] PhaseOf(sent[Len(sent)]) = 3 -> COPYPART_FINALIZE
      [] OTHER -> UNSET

\* C18 as stated: every not-ready condition (substate not Ready or no row in
\* Step B, received_lsn below sync_point or NULL in Step C, meta-subscription
\* lag in Step A) leaves the task at WakeMeUp with wake time now +
\* poll_interval and its step unchanged.
C18_PollAlways ==
    EndedNotReady =>
        /\ tasks[last].exec_res = TASK_WAKEMEUP
        /\ tasks[last].waketm = now + shardman_poll_interval
        /\ tasks[last].curstep = StepOfLastCall

\* C18: a substate other than Ready in Step B, and in Step C a received_lsn
\* below sync_point, a NULL received_lsn or a probe result that is not one
\* row, leave the task at WakeMeUp with wake time now + poll_interval; a
\* substate query that returns no single row in Step B, and in Step A a
\* meta-subscription that lags (or whose probe returns NULL or no single
\* row), leave it at WakeMeUp with wake time now + cmd_retry_naptime. In all
\* of them the step is unchanged and the session stays open.
C18_PollInterval ==
    EndedNotReady =>
        /\ tasks[last].exec_res = TASK_WAKEMEUP
        /\ tasks[last].res = TASK_IN_PROGRESS
        /\ tasks[last].curstep = StepOfLastCall
        /\ tasks[last][sent[Len(sent)].conn] = OPENCONN
        /\ tasks[last].waketm =
               now + (IF \/ sent[Len(sent)].call = "probe_copy"
                         \/ sent[Len(sent)].ans = "notready"
                      THEN shardman_poll_interval ELSE shardman_cmd_retry_naptime)

\* C18 witness: the substate query of Step B returned no row and the task
\* sleeps for the retry naptime
C18_Witness ==
    /\ EndedNotReady
    /\ sent[Len(sent)].call = "substate"
    /\ sent[Len(sent)].ans = "rows"
    /\ tasks[last].curstep = COPYPART_START_FINALSYNC
    /\ tasks[last].waketm = now + shardman_cmd_retry_naptime

\* call i of the dispatch just made is the Step A probe of the source's meta
\* subscription, answered with a received_lsn below the shardlord's position
SrcMetaLagAt(i) ==
    /\ sent[i].call = "probe_meta"
    /\ sent[i].conn = "src_conn"
    /\ sent[i].ans = "lag"

\* C19: when the Step A probe of the source's meta subscription finds its
\* received_lsn below the position the shardlord captured, the dispatch ends
\* there: the task is at WakeMeUp with wake time now + cmd_retry_naptime and
\* still at StartTablesync, and the destination was sent nothing in this
\* dispatch but the opening of its session (no probe, no drop or create
\* script); the catalog is untouched.
C19_SrcLagLeavesDst ==
    \A i \in 1..Len(sent) :
        SrcMetaLagAt(i) =>
            /\ i = Len(sent)
            /\ tasks[last].exec_res = TASK_WAKEMEUP
            /\ tasks[last].res = TASK_IN_PROGRESS
            /\ tasks[last].waketm = now + shardman_cmd_retry_naptime
            /\ tasks[last].curstep = COPYPART_START_TABLESYNC
            /\ tasks[last].dst_conn = OPENCONN
            /\ \A j \in 1..Len(sent) :
                   sent[j].conn = "dst_conn" =>
                       sent[j].call = "connect" \/ sent[j].script = "s"
            /\ partitions = cat0

\* C19 witness: the source lagged in a dispatch that had to open the
\* destination's session first
C19_Witness ==
    /\ Len(sent) > 0
    /\ SrcMetaLagAt(Len(sent))
    /\ \E j \in 1..Len(sent) : sent[j].conn = "dst_conn" /\ sent[j].call = "connect"
    /\ tasks[last].waketm = now + shardman_cmd_retry_naptime

\* C20: the partitions catalog changes only in a dispatch in which the
\* dispatched task's result becomes Success, by that task's one metadata
\* update; no other step (a dispatch that ends in Step A, B, C or in the
\* reconfiguration, a retry, a signal, the return of exec_tasks) changes a
\* row, so while no task of the batch is a Success the catalog is as it was
\* when the batch was built.
C20_CatalogOnSuccess ==
    [][/\ partitions' # partitions =>
             /\ last' \in TaskIds
             /\ tasks[last'].res = TASK_IN_PROGRESS
             /\ tasks'[last'].res = TASK_SUCCESS
             /\ nupd'[last'] = nupd[last'] + 1
             /\ \A u \in TaskIds \ {last'} : tasks'[u] = tasks[u]
       /\ (\A t \in TaskIds : tasks'[t].res # TASK_SUCCESS) => partitions' = cat0]_vars

\* C20 witness: exec_tasks has returned on a signal while a task was retrying
\* its reconfiguration; no task succeeded and the catalog is as it was
C20_Witness ==
    /\ pc = "done"
    /\ signal_pending
    /\ partitions = cat0
    /\ \A t \in TaskIds : tasks[t].res # TASK_SUCCESS
    /\ \E t \in TaskIds : /\ tasks[t].curstep = COPYPART_DONE
                           /\ tasks[t].res = TASK_IN_PROGRESS

\* C21: the copy channel name is an injective function of (partition name,
\* source id, destination id): no other triple, with underscores and digits in
\* its partition name or not, is given the name this triple was given.
C21_Injective ==
    channel.logname # UNSET =>
        \A u \in ChannelArgs :
            psprintf_logname(u.part_name, u.src_node, u.dst_node) = channel.logname
                => u = channel.args

\* the name was made for a partition whose own name ends like a node id, and
\* another partition's name is a prefix of it
C21_Witness ==
    /\ channel.logname # UNSET
    /\ channel.args.part_name = << "p", "_", "1" >>
    /\ channel.args.src_node = 1
    /\ channel.args.dst_node = MaxNodeId

\* C22: whatever an earlier attempt left of the copy channel's subscription,
\* publication, slot and of the destination table, Step A's scripts never
\* fail because an object already exists, and once they are through the
\* objects are the ones the same scripts make on clean nodes: the channel's
\* publication, slot and subscription, and a new, empty table being synced.
C22_Idempotent ==
    /\ cluster.err = ""
    /\ cluster.at > Len(tablesync_stmts) =>
           /\ cluster.objs =
                  tablesync_exec_from([cluster EXCEPT !.objs = CleanObjects], 1).objs
           /\ cluster.objs.tab = "created empty"
           /\ cluster.objs.sub = "created syncing"

\* the scripts are through on nodes that held all four objects
C22_Witness ==
    /\ cluster.at > Len(tablesync_stmts)
    /\ cluster.before = [pub |-> "stale", slot |-> "stale", tab |-> "stale full",
                         sub |-> "stale ready"]

\* the one task of the batch, dispatched once on the catalog the batch was
\* built against, with every call answered "ok" and the copy in sync: Steps
\* A, B and C and one reconfiguration attempt that succeeds at once
AtOnce ==
    exec_task([ cps |-> BuildTask(cat0, 1, reqs[1]), log |-> << >>, rc |-> 0,
                ok |-> TRUE, cat |-> cat0, lord_lsn |-> 1, now |-> 1, recv |-> 0,
                probed |-> -1, nupd |-> 0, sync_replicas |-> shardman_sync_replicas,
                o |-> Quiet("none", 0) ])

\* C23: whatever attempts of the reconfiguration failed before (at whichever
\* script), the catalog a task leaves when it succeeds is the catalog left by
\* a run in which the first attempt of the reconfiguration succeeds.
C23_SameCatalog ==
    \A t \in TaskIds :
        tasks[t].res = TASK_SUCCESS =>
            /\ AtOnce.cps.res = TASK_SUCCESS
            /\ partitions = AtOnce.cat

\* C23 witness: a move between two neighbours succeeded in a dispatch that
\* started after the copy was done, that is after an attempt of the
\* reconfiguration had failed, and the catalog has changed
C23_Witness ==
    /\ last # 0
    /\ tasks[last].res = TASK_SUCCESS
    /\ tasks[last].type = COPYPARTTASK_MOVE_REPLICA
    /\ now > 1
    /\ partitions # cat0
    /\ Len(sent) > 1
    /\ \A i \in 1..Len(sent) : PhaseOf(sent[i]) \in {0, 4, 5}
    /\ \E i \in 1..Len(sent) : sent[i].script = "next_sql"

\* C24: when a terminate or cancel signal is pending as exec_tasks evaluates
\* its loop condition (at the top of an iteration, after an interrupted wait
\* too), it leaves the loop; from there on no task is dispatched, no result,
\* step or catalog row changes, so every unfinished task stays InProgress,
\* and exec_tasks returns with the sessions of every task closed.
C24_SignalStops ==
    [][/\ (pc = "loop" /\ signal_pending /\ pc' # pc) => pc' = "cleanup"
       /\ (pc = "cleanup" /\ signal_pending) =>
              /\ pc' = "done"
              /\ partitions' = partitions
              /\ nupd' = nupd /\ last' = last
              /\ \A t \in TaskIds :
                     /\ tasks'[t].res = tasks[t].res
                     /\ tasks'[t].curstep = tasks[t].curstep
                     /\ (tasks[t].exec_res # TASK_DONE /\ tasks[t].res # TASK_FAILED)
                            => tasks'[t].res = TASK_IN_PROGRESS
                     /\ \A c \in ConnNames : tasks'[t][c] = NULLCONN
       /\ pc = "done" => UNCHANGED vars]_vars

\* C24 witness: exec_tasks has returned on a cancel signal alone, one task of
\* the batch a Success and the other in progress with its copy started
C24_Witness ==
    /\ pc = "done"
    /\ got_sigusr1 /\ ~got_sigterm
    /\ unfinished_tasks = 1
    /\ \E t, u \in TaskIds :
           /\ tasks[t].res = TASK_SUCCESS
           /\ tasks[u].res = TASK_IN_PROGRESS
           /\ tasks[u].curstep # COPYPART_START_TABLESYNC

\* the dispatch just made ended on a call answered with kind k
EndedOn(k) ==
    /\ last # 0
    /\ Len(sent) > 0
    /\ sent[Len(sent)].ans = k

\* C25 as stated: a dispatch that ended in a retry on a failed statement or
\* query, on a row count other than one or on a NULL cell has closed the
\* session the call was made on.
C25_ClosedAlways ==
    (EndedOn("fail") \/ EndedOn("rows") \/ EndedOn("null")) =>
        /\ tasks[last].exec_res = TASK_WAKEMEUP
        /\ tasks[last][sent[Len(sent)].conn] = NULLCONN

\* C25: a dispatch that ended in a retry because a connection attempt, a
\* statement or a query failed has closed the session the call was made on;
\* one that ended because a query was answered with a row count other than
\* one or with a NULL cell has left that session open, and the task retries
\* on it.
C25_ClosedOnFailure ==
    /\ EndedOn("fail") =>
           /\ tasks[last].exec_res = TASK_WAKEMEUP
           /\ tasks[last][sent[Len(sent)].conn] = NULLCONN
    /\ (EndedOn("rows") \/ EndedOn("null")) =>
           /\ tasks[last].exec_res = TASK_WAKEMEUP
           /\ tasks[last][sent[Len(sent)].conn] = OPENCONN

\* C25 witness: the destination answered the probe of its meta subscription
\* with a NULL received_lsn; both sessions of the task are still open
C25_Witness ==
    /\ EndedOn("null")
    /\ sent[Len(sent)].call = "probe_meta"
    /\ sent[Len(sent)].conn = "dst_conn"
    /\ tasks[last].dst_conn = OPENCONN
    /\ tasks[last].src_conn = OPENCONN

\* log[i] is the statement "set session synchronous_commit to local"
IsSetting(log, i) == log[i].script = "s"

\* the connection attempts on session c among log[1..n]
ConnectsBefore(log, c, n) ==
    { k \in 1..n : log[k].conn = c /\ log[k].call = "connect" }

\* when log[i] went out on session c, the setting had succeeded on c since c
\* was opened last: right after the last connect of this dispatch, or, with
\* no connect in this dispatch, on the session kept from before
SettingDone(log, i, c, kept) ==
    IF ConnectsBefore(log, c, i - 1) = {} THEN kept
    ELSE \E k \in ConnectsBefore(log, c, i - 1) :
            /\ \A j \in ConnectsBefore(log, c, i - 1) : j <= k
            /\ log[k].ans = "ok"
            /\ k + 1 < i
            /\ log[k + 1].conn = c /\ IsSetting(log, k + 1) /\ log[k + 1].ans = "ok"

\* C26: on every session the statement sent first after each connect is the
\* setting of synchronous_commit to local; every script statement, probe and
\* query goes out on a session on which the setting has succeeded since it
\* was opened last (a session is open from one dispatch to the next only if
\* it has); a setting that fails ends the dispatch with the session closed
\* and the task asleep for cmd_retry_naptime.
C26_SettingFirst ==
    [][(last' # 0 /\ sent' # << >>) =>
          /\ \A i \in 1..Len(sent') :
                 /\ (sent'[i].call = "connect" /\ sent'[i].ans = "ok") =>
                        /\ i < Len(sent')
                        /\ sent'[i + 1].conn = sent'[i].conn
                        /\ IsSetting(sent', i + 1)
                 /\ (sent'[i].call # "connect" /\ ~IsSetting(sent', i)
                        /\ sent'[i].conn # "lord") =>
                        SettingDone(sent', i, sent'[i].conn,
                                    tasks[last'][sent'[i].conn] = OPENCONN)
                 /\ (IsSetting(sent', i) /\ sent'[i].ans # "ok") =>
                        /\ i = Len(sent')
                        /\ tasks'[last'][sent'[i].conn] = NULLCONN
                        /\ tasks'[last'].exec_res = TASK_WAKEMEUP
                        /\ tasks'[last'].waketm = now + shardman_cmd_retry_naptime
          /\ \A c \in ConnNames :
                 tasks'[last'][c] = OPENCONN =>
                     SettingDone(sent', Len(sent') + 1, c, tasks[last'][c] = OPENCONN)]_vars

\* C26 witness: a dispatch past the copy had to open the source session
\* again, set it up and then sent a script on it
C26_Witness ==
    /\ last # 0
    /\ tasks[last].curstep = COPYPART_DONE
    /\ \A i \in 1..Len(sent) : PhaseOf(sent[i]) \in {0, 4, 5}
    /\ \E k \in 1..Len(sent) :
           /\ sent[k].conn = "src_conn" /\ sent[k].call = "connect"
           /\ \E i \in (k + 2)..Len(sent) :
                  sent[i].conn = "src_conn" /\ sent[i].call = "exec"
                      /\ ~IsSetting(sent, i)

\* the statements of the script of task cps that the calls name script
ScriptText(cps, script) ==
    CASE script = "s" -> << "set session synchronous_commit to local" >>
      [] script = "dst_drop_sub_sql" -> dst_drop_sub_sql(cps)
      [] script = "src_create_pub_and_rs_sql" -> src_create_pub_and_rs_sql(cps)
      [] script = "dst_create_tab_and_sub_sql" -> dst_create_tab_and_sub_sql(cps)
      [] script = "prev_sql" -> prev_sql(cps)
      [] script = "sync_standby_prev_sql" -> sync_standby_prev_sql(cps)
      [] script = "dst_sql" -> dst_sql(cps)
      [] script = "next_sql" -> next_sql(cps)
      [] script = "sync_standby_dst_sql" -> sync_standby_dst_sql(cps)
      [] script = "drop_cp_sub_sql" -> drop_cp_sub_sql(cps)
      [] script = "create_data_pub_sql" -> create_data_pub_sql(cps)
      [] script = "create_data_sub_sql" -> create_data_sub_sql(cps)
      [] script = "sync_standby_sql" -> sync_standby_sql(cps)

\* log[i] is a statement sent by remote_exec; its place in its script is one
\* more than the number of statements of the same script on the same session
\* sent right before it
InRun(log, j, i) ==
    \A k \in j..i : /\ log[k].call = "exec"
                     /\ log[k].script = log[i].script
                     /\ log[k].conn = log[i].conn

PlaceInScript(log, i) == Cardinality({ j \in 1..i : InRun(log, j, i) })

\* C27: remote_exec sends the statements of a script one by one, in the
\* script's order, on one session, the next only once the one before was
\* answered "ok"; a statement that fails is the last call of the dispatch
\* (no later statement is sent), its session is closed and the task sleeps
\* for cmd_retry_naptime; the caller goes on only after the last statement
\* of the script succeeded.
C27_RunScript ==
    (last # 0 /\ sent # << >>) =>
        \A i \in 1..Len(sent) :
            sent[i].call = "exec" =>
                /\ PlaceInScript(sent, i) <= Len(ScriptText(tasks[last], sent[i].script))
                /\ sent[i].stmt =
                       ScriptText(tasks[last], sent[i].script)[PlaceInScript(sent, i)]
                /\ PlaceInScript(sent, i) > 1 => sent[i - 1].ans = "ok"
                /\ sent[i].ans # "ok" =>
                       /\ i = Len(sent)
                       /\ tasks[last][sent[i].conn] = NULLCONN
                       /\ tasks[last].exec_res = TASK_WAKEMEUP
                       /\ tasks[last].res = TASK_IN_PROGRESS
                       /\ tasks[last].waketm = now + shardman_cmd_retry_naptime
                /\ (sent[i].ans = "ok" /\ PlaceInScript(sent, i)
                                            < Len(ScriptText(tasks[last], sent[i].script))) =>
                       /\ i < Len(sent)
                       /\ InRun(sent, i, i + 1)

\* C27 witness: the third statement of the source's script of Step A failed
\* after the first two had been sent and answered; nothing was sent after it
C27_Witness ==
    /\ last # 0
    /\ Len(sent) > 3
    /\ sent[Len(sent)].script = "src_create_pub_and_rs_sql"
    /\ sent[Len(sent)].stmt = "select shardman.drop_repslot"
    /\ sent[Len(sent)].ans = "fail"
    /\ sent[Len(sent) - 1].stmt = "create publication"
    /\ sent[Len(sent) - 2].stmt = "drop publication if exists"
    /\ tasks[last].src_conn = NULLCONN
    /\ tasks[last].dst_conn = OPENCONN

\* log[i] is a statement of one of the three scripts of Step A
IsTablesyncScript(log, i) == CallRank(log[i]) \in {13, 14, 15}

\* among log[1..n] the probe of the meta subscription on session c found a
\* received_lsn at or past the position the shardlord had captured
MetaSynced(log, c, n) ==
    \E j \in 1..n : /\ log[j].call = "probe_meta"
                     /\ log[j].conn = c
                     /\ log[j].stmt = "shardman_meta_sub"
                     /\ log[j].ans = "ok"

\* C28: in every attempt of Step A no statement of a drop or create script
\* goes to the source or the destination before, in the same dispatch, the
\* probes of the meta subscription of the source and of the destination have
\* both found a received_lsn at or past the shardlord's position read at the
\* start of the attempt; sessions and answers of an earlier attempt do not
\* count.
C28_BarrierFirst ==
    \A i \in 1..Len(sent) :
        IsTablesyncScript(sent, i) =>
            /\ MetaSynced(sent, "src_conn", i - 1)
            /\ MetaSynced(sent, "dst_conn", i - 1)
            /\ \A j \in 1..(i - 1) : sent[j].ans = "ok"

\* C28 witness: a later attempt of Step A, on sessions kept from the attempt
\* before, probed both nodes again and then created the subscription
C28_Witness ==
    /\ last # 0
    /\ now > 1
    /\ Len(sent) > 2
    /\ sent[1].call = "probe_meta" /\ sent[1].conn = "src_conn"
    /\ sent[2].call = "probe_meta" /\ sent[2].conn = "dst_conn"
    /\ \E i \in 1..Len(sent) : sent[i].stmt = "create subscription" /\ sent[i].ans = "ok"

\* among log[1..n] statement stmt of script script was sent on session c and
\* answered "ok"
StmtDone(log, c, script, stmt, n) ==
    \E j \in 1..n : /\ log[j].call = "exec"
                     /\ log[j].conn = c
                     /\ log[j].script = script
                     /\ log[j].stmt = stmt
                     /\ log[j].ans = "ok"

\* C29: in every attempt of Step A the statements go out in the order: the
\* drop of the stale copy subscription on the destination, then the drop and
\* create of publication and slot on the source, then the drop and create of
\* the table and the create of the subscription on the destination. The
\* source's slot is neither dropped nor created before the destination's
\* drop of the subscription succeeded in this attempt, and the subscription
\* is not created before the source's publication and slot were.
C29_ScriptOrder ==
    \A i \in 1..Len(sent) :
        IsTablesyncScript(sent, i) =>
            /\ sent[i].conn = (IF CallRank(sent[i]) = 14 THEN "src_conn" ELSE "dst_conn")
            /\ \A j \in 1..(i - 1) :
                   IsTablesyncScript(sent, j) => CallRank(sent[j]) <= CallRank(sent[i])
            /\ CallRank(sent[i]) = 14 =>
                   StmtDone(sent, "dst_conn", "dst_drop_sub_sql",
                            "drop subscription if exists", i - 1)
            /\ sent[i].stmt = "create subscription" =>
                   /\ StmtDone(sent, "src_conn", "src_create_pub_and_rs_sql",
                               "create publication", i - 1)
                   /\ StmtDone(sent, "src_conn", "src_create_pub_and_rs_sql",
                               "select pg_create_logical_replication_slot", i - 1)
                   /\ StmtDone(sent, "dst_conn", "dst_create_tab_and_sub_sql",
                               "create table like", i - 1)

\* C29 witness: an attempt of Step A got as far as the create of the
\* subscription, which failed
C29_Witness ==
    /\ last # 0
    /\ Len(sent) > 0
    /\ sent[Len(sent)].stmt = "create subscription"
    /\ sent[Len(sent)].ans = "fail"
    /\ tasks[last].curstep = COPYPART_START_TABLESYNC
    /\ tasks[last].dst_conn = NULLCONN

\* Step A succeeded in the dispatch just made: its last statement, the create
\* of the subscription, is sent[i] and was answered "ok"
TablesyncDoneAt(i) ==
    /\ last # 0
    /\ sent[i].script = "dst_create_tab_and_sub_sql"
    /\ sent[i].stmt = "create subscription"
    /\ sent[i].ans = "ok"

\* C30 as stated: a dispatch in which Step A succeeded sent no statement of
\* Step B (substate query, read-only, sync-point read) and left the task at
\* StartFinalsync: one dispatch, one step.
C30_OneStepPerDispatch ==
    \A i \in 1..Len(sent) :
        TablesyncDoneAt(i) =>
            /\ tasks[last].curstep = COPYPART_START_FINALSYNC
            /\ \A j \in 1..Len(sent) : PhaseOf(sent[j]) # 2

\* C30: a dispatch in which Step A succeeded has moved the task past
\* StartTablesync and gone on with Step B at once: the call after the create
\* of the subscription is the substate query on the destination; the task
\* is still at StartFinalsync only if Step B did not get through (the
\* dispatch ended on a call of Step B that was not answered "ok"), and the
\* dispatch may run on through Step C and the reconfiguration.
C30_FallsThrough ==
    \A i \in 1..Len(sent) :
        TablesyncDoneAt(i) =>
            /\ tasks[last].curstep # COPYPART_START_TABLESYNC
            /\ i < Len(sent)
            /\ sent[i + 1].call = "substate"
            /\ sent[i + 1].conn = "dst_conn"
            /\ tasks[last].curstep = COPYPART_START_FINALSYNC =>
                   /\ PhaseOf(sent[Len(sent)]) = 2
                   /\ sent[Len(sent)].ans # "ok"
                   /\ tasks[last].exec_res = TASK_WAKEMEUP

\* C30 witness: one dispatch ran Step A and Step B and ended in Step C, on a
\* probe of the copy subscription that was behind the sync point
C30_Witness ==
    /\ Len(sent) > 0
    /\ \E i \in 1..Len(sent) : TablesyncDoneAt(i)
    /\ \E i \in 1..Len(sent) : sent[i].call = "wal" /\ sent[i].ans = "ok"
    /\ sent[Len(sent)].call = "probe_copy"
    /\ tasks[last].curstep = COPYPART_FINALIZE
    /\ tasks[last].exec_res = TASK_WAKEMEUP

\* C31: in Step B the read-only statement goes to the source only right
\* after the substate query on the destination was answered Ready in the same
\* dispatch, and the sync point is read from the source only right after the
\* read-only statement succeeded; the step moves from StartFinalsync (or
\* before) to Finalize (or beyond) only in a dispatch in which all three were
\* answered "ok", in this order.
C31_ReadonlyBeforeSyncPoint ==
    [][sent' # << >> =>
          /\ \A i \in 1..Len(sent') :
                 /\ sent'[i].call = "readonly" =>
                        /\ sent'[i].conn = "src_conn"
                        /\ i > 1
                        /\ sent'[i - 1].call = "substate"
                        /\ sent'[i - 1].conn = "dst_conn"
                        /\ sent'[i - 1].ans = "ok"
                 /\ sent'[i].call = "wal" =>
                        /\ sent'[i].conn = "src_conn"
                        /\ i > 1
                        /\ sent'[i - 1].call = "readonly"
                        /\ sent'[i - 1].ans = "ok"
          /\ (StepRank(tasks[last'].curstep) <= 2 /\ StepRank(tasks'[last'].curstep) >= 3)
                 => \E i \in 3..Len(sent') :
                        /\ sent'[i].call = "wal" /\ sent'[i].ans = "ok"
                        /\ sent'[i - 1].call = "readonly" /\ sent'[i - 1].ans = "ok"
                        /\ sent'[i - 2].call = "substate" /\ sent'[i - 2].ans = "ok"
          /\ (StepRank(tasks'[last'].curstep) <= 2)
                 => \A i \in 1..Len(sent') : sent'[i].call = "wal" => sent'[i].ans # "ok"]_vars

\* C31 witness: a later attempt of Step B, on sessions kept from before, found
\* the subscription Ready, made the source read-only and read the sync point
C31_Witness ==
    /\ last # 0
    /\ now > 1
    /\ Len(sent) >= 3
    /\ sent[1].call = "substate" /\ sent[1].ans = "ok"
    /\ sent[2].call = "readonly" /\ sent[2].ans = "ok"
    /\ sent[3].call = "wal" /\ sent[3].ans = "ok"
    /\ StepRank(tasks[last].curstep) >= 3

\* C32: the sync_point of a task is still the zero of its construction
\* while the task has not reached Finalize; it is assigned in the dispatch
\* that takes the step from StartFinalsync to Finalize, a position the source
\* reported at or past what the destination had received; and from Finalize
\* on no step of the program changes it (not a poll of Step C, a retry of
\* the reconfiguration, a reconnect or the return of exec_tasks).
C32_SyncPointOnce ==
    [][\A t \in TaskIds :
          /\ StepRank(tasks'[t].curstep) <= 2 => tasks'[t].sync_point = 0
          /\ StepRank(tasks[t].curstep) >= 3 =>
                 tasks'[t].sync_point = tasks[t].sync_point
          /\ tasks'[t].sync_point # tasks[t].sync_point =>
                 /\ last' = t
                 /\ StepRank(tasks[t].curstep) <= 2
                 /\ StepRank(tasks'[t].curstep) >= 3
                 /\ \E i \in recv_lsn[t]..MaxLsn : tasks'[t].sync_point = LsnAt(i)
                 /\ \E i \in 1..Len(sent') : sent'[i].call = "wal" /\ sent'[i].ans = "ok"]_vars

\* C32 witness: a task with a sync point past zero succeeded in a dispatch
\* that retried its reconfiguration on a session it had to open again
C32_Witness ==
    /\ last # 0
    /\ tasks[last].res = TASK_SUCCESS
    /\ tasks[last].sync_point > 0
    /\ Len(sent) > 1
    /\ \A i \in 1..Len(sent) : PhaseOf(sent[i]) \in {0, 4, 5}
    /\ \E i \in 1..Len(sent) : sent[i].call = "connect"

\* the wake times of the tasks on the timeout list
WakeTimes == { tasks[timeout_states[j]].waketm : j \in 1..Len(timeout_states) }

\* C33: the timeout calc_timeout returns is -1 for an empty list, 0 if a
\* task on the list has waketm <= now, and otherwise the time from now to the
\* least waketm on the list, which is positive; for a list of one task that
\* sleeps it is the rest of that task's delay. It is never below -1.
C33_Timeout ==
    pc = "epoll_wait" =>
        /\ timeout >= -1
        /\ timeout_states = << >> => timeout = -1
        /\ (\E w \in WakeTimes : w <= now) => timeout = 0
        /\ (timeout_states # << >> /\ \A w \in WakeTimes : w > now) =>
               /\ timeout > 0
               /\ now + timeout \in WakeTimes
               /\ \A w \in WakeTimes : now + timeout <= w
        /\ (Len(timeout_states) = 1 /\ tasks[timeout_states[1]].waketm > now) =>
               timeout = tasks[timeout_states[1]].waketm - now

\* C33 witness: of two sleeping tasks the one further down the list wakes
\* first, and the timeout is the time left to its wake time
C33_Witness ==
    /\ pc = "epoll_wait"
    /\ Len(timeout_states) = 2
    /\ tasks[timeout_states[2]].waketm < tasks[timeout_states[1]].waketm
    /\ tasks[timeout_states[2]].waketm > now
    /\ timeout = tasks[timeout_states[2]].waketm - now

\* C34: in a pass over the timeout list only the task under the iterator is
\* dispatched, and only if its waketm <= now; a task under the iterator whose
\* waketm <= now is dispatched, not passed over; after its dispatch the task
\* is off the list or behind the iterator with a waketm later than now, and
\* the pass goes on with the tasks after it; the iterator never goes back
\* during a pass, and the pass ends with no task on the list due.
C34_DueOnly ==
    [][/\ \A t \in TaskIds : tasks'[t] # tasks[t] /\ pc' # "done" =>
              /\ pc = "walk" /\ pc' = "walk"
              /\ iter <= Len(timeout_states)
              /\ t = timeout_states[iter]
              /\ tasks[t].waketm <= now
              /\ now' = now
              /\ \A u \in TaskIds \ {t} : tasks'[u] = tasks[u]
              /\ \/ /\ timeout_states' = RemoveAt(timeout_states, iter)
                    /\ iter' = iter
                 \/ /\ timeout_states' = timeout_states
                    /\ iter' = iter + 1
                    /\ tasks'[t].waketm > now
       /\ (pc = "walk" /\ iter <= Len(timeout_states)
             /\ tasks[timeout_states[iter]].waketm <= now) =>
              tasks'[timeout_states[iter]] # tasks[timeout_states[iter]]
       /\ pc = "walk" /\ pc' = "walk" => iter' >= iter
       /\ pc' = "walk" =>
              \A j \in 1..(iter' - 1) : tasks'[timeout_states'[j]].waketm > now'
       /\ (pc = "walk" /\ pc' = "loop") =>
              \A j \in 1..Len(timeout_states') :
                  tasks'[timeout_states'[j]].waketm > now'
      ]_vars

\* C34 witness: in one pass the first task of the list was dispatched and
\* scheduled a retry, and the second was dispatched after it
C34_Witness ==
    /\ pc = "walk"
    /\ Len(timeout_states) = 2
    /\ iter = 3
    /\ last = timeout_states[2]
    /\ tasks[timeout_states[1]].exec_res = TASK_WAKEMEUP
    /\ tasks[timeout_states[1]].waketm = now + shardman_poll_interval
    /\ tasks[timeout_states[2]].waketm = now + shardman_poll_interval

\* C35: while exec_tasks runs its loop, every task on the timeout list has a
\* waketm that is set (not zero), so the assertion of calc_timeout holds
\* whenever the timeout is computed; every task still in progress is on the
\* list, and once it has been dispatched it asks to be woken again.
C35_WaketmSet ==
    pc \in {"loop", "wait", "walk"} =>
        /\ calc_timeout_assert(timeout_states, tasks)
        /\ \A t \in TaskIds : tasks[t].res = TASK_IN_PROGRESS =>
               /\ t \in Range(timeout_states)
               /\ tasks[t].waketm # 0
               /\ tasks[t].exec_res \in {UNSET, TASK_WAKEMEUP}

\* C35 witness: the timeout is about to be computed with a task on the list
\* whose copy is done and whose last dispatch, which ran no step of the copy
\* after invalidating waketm, ended in a retry of the reconfiguration
C35_Witness ==
    /\ pc = "loop"
    /\ now > 1
    /\ \E j \in 1..Len(timeout_states) :
           /\ tasks[timeout_states[j]].curstep = COPYPART_DONE
           /\ tasks[timeout_states[j]].exec_res = TASK_WAKEMEUP
           /\ tasks[timeout_states[j]].waketm = now + shardman_cmd_retry_naptime
           /\ last = timeout_states[j]

\* C36: inside the loop a task leaves the timeout list only in the dispatch
\* that ends with its result Success, and the counter goes down with it; the
\* counter equals the length of the list, no task is subscribed to epoll, the
\* tasks on the list are those in progress, and epoll_wait is never entered
\* with the infinite timeout -1.
C36_CounterIsList ==
    [][/\ (pc = "walk" /\ timeout_states' # timeout_states) =>
              /\ iter <= Len(timeout_states)
              /\ last' = timeout_states[iter]
              /\ timeout_states' = RemoveAt(timeout_states, iter)
              /\ tasks[last'].res = TASK_IN_PROGRESS
              /\ tasks'[last'].res = TASK_SUCCESS
              /\ tasks'[last'].exec_res = TASK_DONE
              /\ unfinished_tasks' = unfinished_tasks - 1
       /\ pc' \in {"loop", "wait", "walk"} =>
              /\ unfinished_tasks' = Len(timeout_states')
              /\ epoll_set' = {}
              /\ Range(timeout_states') =
                     { t \in TaskIds : tasks'[t].res = TASK_IN_PROGRESS }
       /\ pc' = "wait" =>
              /\ timeout_states' # << >>
              /\ timeout' >= 0
      ]_vars

\* C36 witness: of a batch of two tasks one has succeeded and left the list;
\* exec_tasks waits for the other, which is the whole list, counter 1
C36_Witness ==
    /\ pc = "wait"
    /\ Len(reqs) = 2
    /\ unfinished_tasks = 1
    /\ Len(timeout_states) = 1
    /\ timeout > 0
    /\ \E t \in TaskIds :
           /\ tasks[t].res = TASK_SUCCESS
           /\ t \notin Range(timeout_states)

\* "shardman_data_<part>_<pub>_<sub>" for a part_name of one character
DataChannel(part, pub, sub) ==
    << "s", "h", "a", "r", "d", "m", "a", "n", "_", "d", "a", "t", "a", "_", part, "_" >>
        \o psprintf_d(pub) \o << "_" >> \o psprintf_d(sub)

\* C37: for a move whose source has a previous neighbour, the slot created on
\* prev and the standby name enrolled on prev are shardman_data_<part>_<prev>_<dst>;
\* for a move whose source has a next neighbour, the slot created on dst and
\* the standby name enrolled on dst are shardman_data_<part>_<dst>_<next>.
C37_NamedByEnds ==
    (channel.done /\ channel.mps.res # TASK_FAILED) =>
        /\ channel.mps.prev_node # SHMN_INVALID_NODE_ID =>
               /\ channel.prev_slot =
                      DataChannel(channel.mps.part_name, channel.mps.prev_node,
                                  channel.mps.dst_node)
               /\ channel.prev_standby = channel.prev_slot
        /\ channel.mps.next_node # SHMN_INVALID_NODE_ID =>
               /\ channel.dst_slot =
                      DataChannel(channel.mps.part_name, channel.mps.dst_node,
                                  channel.mps.next_node)
               /\ channel.dst_standby = channel.dst_slot

\* what init_mp_state does instead: the prev -> dst channel is named by
\* shardman_my_id and dst; the dst -> next channel by dst and next
C37_NamedByMyId ==
    (channel.done /\ channel.mps.res # TASK_FAILED) =>
        /\ channel.mps.prev_node # SHMN_INVALID_NODE_ID =>
               /\ channel.prev_slot =
                      DataChannel(channel.mps.part_name, shardman_my_id,
                                  channel.mps.dst_node)
               /\ channel.prev_standby = channel.prev_slot
        /\ channel.mps.next_node # SHMN_INVALID_NODE_ID =>
               /\ channel.dst_slot =
                      DataChannel(channel.mps.part_name, channel.mps.dst_node,
                                  channel.mps.next_node)
               /\ channel.dst_standby = channel.dst_slot

\* the session c was opened with success for the call log[i]: by the last
\* connect of this dispatch before i, or, with no connect before i, it was
\* kept open (kept) from the dispatch before
EnsuredOpen(log, i, c, kept) ==
    IF ConnectsBefore(log, c, i - 1) = {} THEN kept
    ELSE \E k \in ConnectsBefore(log, c, i - 1) :
            /\ \A j \in ConnectsBefore(log, c, i - 1) : j <= k
            /\ log[k].ans = "ok"

\* C38: every statement, script statement and probe of a dispatch goes out
\* on a session that is open (not NULL): the session was opened with success
\* in this dispatch or kept open from the one before, and no call on it has
\* failed, which discards it, between that and the use.
C38_OpenWhenUsed ==
    [][(last' # 0 /\ sent' # << >>) =>
          \A i \in 1..Len(sent') :
              (sent'[i].call # "connect" /\ sent'[i].conn # "lord") =>
                  /\ sent'[i].open
                  /\ sent'[i].conn \in ConnNames
                  /\ EnsuredOpen(sent', i, sent'[i].conn,
                                 tasks[last'][sent'[i].conn] = OPENCONN)
                  /\ \A k \in 1..(i - 1) :
                         sent'[k].conn = sent'[i].conn => sent'[k].ans # "fail"
      ]_vars

\* C38 witness: a poll of Step C failed and discarded the destination
\* session; the next dispatch opened it again and polled on the new session
C38_Witness ==
    /\ last # 0
    /\ now > 1
    /\ Len(sent) >= 3
    /\ sent[1].call = "connect" /\ sent[1].conn = "dst_conn" /\ sent[1].ans = "ok"
    /\ IsSetting(sent, 2) /\ sent[2].ans = "ok"
    /\ sent[3].call = "probe_copy" /\ sent[3].conn = "dst_conn" /\ sent[3].open
    /\ tasks[last].src_conn = OPENCONN

\* the rows of partition part form a replica chain: exactly one row with prv
\* NULL, exactly one with nxt NULL, and row x has nxt = y iff row y has prv = x
WellFormedChain(cat, part) ==
    LET rows == { r \in cat : r.part_name = part }
    IN  /\ Cardinality({ r \in rows : r.prv = SQLNULL }) = 1
        /\ Cardinality({ r \in rows : r.nxt = SQLNULL }) = 1
        /\ \A x, y \in rows : (x.nxt = {y.owner}) <=> (y.prv = {x.owner})

\* no two commands of the batch name the same partition
DistinctParts ==
    \A i, j \in 1..Len(reqs) : i # j => reqs[i].part_name # reqs[j].part_name

\* C39: in a batch whose tasks name different partitions, if every partition's
\* rows formed a replica chain when the batch was built, they do in every
\* state of exec_tasks, whatever the order the tasks' metadata updates run in.
C39_ChainsKept ==
    (DistinctParts /\ \A r \in cat0 : WellFormedChain(cat0, r.part_name)) =>
        /\ { r.part_name : r \in partitions } = { r.part_name : r \in cat0 }
        /\ \A r \in partitions : WellFormedChain(partitions, r.part_name)

\* C39 witness: a batch of a move of "p" and a move of "q" has run both
\* updates; the task at the head of the list was delayed and ran its update
\* after the other's
C39_Witness ==
    /\ Len(reqs) = 2
    /\ DistinctParts
    /\ \A t \in TaskIds : tasks[t].res = TASK_SUCCESS /\ nupd[t] = 1
    /\ last = 2
    /\ partitions # cat0
    /\ \A r \in partitions : WellFormedChain(partitions, r.part_name)

\* C40: with no signal, nodes that accept connections and statements in the
\* end and destinations that receive the WAL waited for, exec_tasks returns
\* with every task that was not born failed a success; and it leaves its loop
\* only then: as long as a task is in progress, whatever has failed, it is
\* on the list waiting to be run again.
C40_Terminates ==
    /\ <>(pc = "done" /\ \A t \in TaskIds :
              \/ tasks[t].res = TASK_SUCCESS
              \/ tasks[t].res = TASK_FAILED /\ tasks[t].exec_res = UNSET)
    /\ [](\A t \in TaskIds :
              /\ pc \in {"cleanup", "done"} => tasks[t].res # TASK_IN_PROGRESS
              /\ (pc \in {"loop", "wait", "walk"} /\ tasks[t].res = TASK_IN_PROGRESS) =>
                     /\ t \in Range(timeout_states)
                     /\ tasks[t].waketm > 0)

\* C40 witness: exec_tasks has returned from a batch of two tasks, both a
\* success, one of which had to wait for its destination to receive the WAL
\* up to the last position
C40_Witness ==
    /\ pc = "done"
    /\ Len(reqs) = 2
    /\ \A t \in TaskIds : tasks[t].res = TASK_SUCCESS /\ nupd[t] = 1
    /\ \E t \in TaskIds :
           /\ tasks[t].sync_point = LsnAt(MaxLsn)
           /\ recv_lsn[t] = MaxLsn
====
